---- MODULE Spec2Model ----
(***************************************************************************)
(* Job-crawler data processor: the orchestrator cycle of                   *)
(* data-processor/index.js, the source processor (BaseProcessor), the      *)
(* field normalizers and the store operations of services/database.js.     *)
(*                                                                         *)
(* Text is a sequence of one-character strings, so that trimming, case     *)
(* folding and substring search are computed and not assumed.  A regular   *)
(* expression of a configuration document is a record: whether it          *)
(* compiles, and the set of texts it matches.                              *)
(***************************************************************************)
EXTENDS Integers, Sequences, FiniteSets, TLC

(***************************************************************************)
(* Text helpers (JavaScript String / SQL LOWER, TRIM).                     *)
(***************************************************************************)
\* SQL NULL / JavaScript null or undefined, for a text value.
Null == <<"null">>

\* JavaScript falsiness of a text value: null, undefined or "".
Falsy(s) == s = Null \/ s = <<>>

LowerChar(c) ==
    CASE c = "A" -> "a"
      [] c = "B" -> "b"
      [] c = "D" -> "d"
      [] c = "H" -> "h"
      [] c = "Q" -> "q"
      [] c = "R" -> "r"
      [] OTHER -> c

Lower(s) == [i \in 1..Len(s) |-> LowerChar(s[i])]

RECURSIVE TrimLeft(_)
TrimLeft(s) == IF s # <<>> /\ Head(s) = " " THEN TrimLeft(Tail(s)) ELSE s

RECURSIVE TrimRight(_)
TrimRight(s) ==
    IF s # <<>> /\ s[Len(s)] = " " THEN TrimRight(SubSeq(s, 1, Len(s) - 1)) ELSE s

Trim(s) == TrimRight(TrimLeft(s))

\* String.prototype.includes
Includes(s, sub) ==
    \E i \in 0..(Len(s) - Len(sub)) : SubSeq(s, i + 1, i + Len(sub)) = sub

(***************************************************************************)
(* Numbers: a salary bound is a natural number, NaN or null.               *)
(***************************************************************************)
NaN == 0 - 1
NullNum == 0 - 2

IsNum(x) == x >= 0

Mul(a, b) == IF a = NaN \/ b = NaN THEN NaN ELSE a * b

\* a sum taken for the mean
MeanUndivided(a, b) == IF a = NaN \/ b = NaN THEN NaN ELSE a + b

\* (a + b) / 2 of JavaScript, on the even sums the model's inputs give
Mean(a, b) == IF a = NaN \/ b = NaN THEN NaN ELSE (a + b) \div 2

\* JavaScript truthiness of a number-or-null: 0, NaN and null are falsy
TruthyNum(x) == x > 0


(***************************************************************************)
(* Configuration documents.  A section that the YAML document lacks has    *)
(* present = FALSE; reading a field of it through `?.` gives undefined.    *)
(***************************************************************************)
VND == <<"V">>
USD == <<"U">>
NoLevel == ""

\* texts of the salary column
SalRange == <<"1", "5", "-", "2", "5", "V">>
SalFrom == <<"1", "5", "+">>
SalNegotiable == <<"n">>
SalJunk == <<"x">>
SalWords == <<"a", "-", "b">>
\* texts of the experience_level column
ExpSenior == <<"S", "r">>
ExpJunk == <<"z">>
\* texts of the location column
LocHcm == <<"H", "C", "M">>
LocRemoteHcm == <<"R", "e", " ", "H", "C", "M">>
LocHybridHcm == <<"H", "y", " ", "H", "C", "M">>
LocOther == <<"q">>
\* texts of the listed_time column
DateRel == <<"3", "d">>
DateAbs == <<"2", "0", "2", "4">>
DateJunk == <<"y">>
\* texts of the description column
DescHtml == <<"<", "b", ">", "x", " ", " ", "y">>

Regex(valid, matches) == [valid |-> valid, matches |-> matches]

\* capture groups of a match: the texts of groups 1, 2, 3 (Null: no such group)
Groups(text) ==
    CASE text = SalRange -> << <<"1", "5">>, <<"2", "5">>, VND >>
      [] text = SalFrom -> << <<"1", "5">> >>
      [] text = SalWords -> << <<"a">>, <<"b">> >>
      [] text = DateRel -> << <<"3">> >>
      [] OTHER -> <<>>

Group(text, g) == IF g \in 1..Len(Groups(text)) THEN Groups(text)[g] ELSE Null

RangePattern ==
    [regex |-> Regex(TRUE, {SalRange}), type |-> "range", min_group |-> 1,
     max_group |-> 2, value_group |-> 0, currency_group |-> 3,
     multiplier |-> 1000000, currency |-> Null]
\* a pattern for "from 15 Mil": it also matches the text of a range
MinPattern ==
    [regex |-> Regex(TRUE, {SalRange, SalFrom}), type |-> "min", min_group |-> 0,
     max_group |-> 0, value_group |-> 1, currency_group |-> 0,
     multiplier |-> 1000000, currency |-> USD]
\* a range pattern whose second group is optional and whose groups take any
\* word: it also matches "15+" (no second group) and "a-b" (no digits)
LooseRangePattern ==
    [regex |-> Regex(TRUE, {SalRange, SalFrom, SalWords}), type |-> "range",
     min_group |-> 1, max_group |-> 2, value_group |-> 0, currency_group |-> 3,
     multiplier |-> 1000000, currency |-> Null]
NegotiablePattern ==
    [regex |-> Regex(TRUE, {SalNegotiable}), type |-> "negotiable", min_group |-> 0,
     max_group |-> 0, value_group |-> 0, currency_group |-> 0,
     multiplier |-> 0, currency |-> Null]
BrokenSalaryPattern ==
    [regex |-> Regex(FALSE, {}), type |-> "exact", min_group |-> 0,
     max_group |-> 0, value_group |-> 1, currency_group |-> 0,
     multiplier |-> 0, currency |-> Null]

SalarySection(patterns, method, ai) ==
    [present |-> TRUE, method |-> method, patterns |-> patterns,
     ai_fallback |-> ai, default_currency |-> VND]
NoSalarySection ==
    [present |-> FALSE, method |-> "", patterns |-> <<>>,
     ai_fallback |-> FALSE, default_currency |-> Null]

ExperienceSectionWith(default, ai) ==
    [present |-> TRUE, method |-> "manual",
     mappings |-> << <<ExpSenior, "Senior">> >>,
     default |-> default, ai_fallback |-> ai]
ExperienceSection(ai) == ExperienceSectionWith("Entry", ai)
NoExperienceSection ==
    [present |-> FALSE, method |-> "", mappings |-> <<>>,
     default |-> NoLevel, ai_fallback |-> FALSE]

LocationSection(countryPatterns, method, ai) ==
    [present |-> TRUE, method |-> method,
     city_mappings |-> << <<LocHcm, <<"h", "c", "m", "c">> >> >>,
     country_patterns |-> countryPatterns,
     remote_keywords |-> << <<"r", "e">> >>,
     hybrid_keywords |-> << <<"h", "y">> >>,
     default_country |-> <<"V", "N", "M">>, ai_fallback |-> ai]
NoLocationSection ==
    [present |-> FALSE, method |-> "", city_mappings |-> <<>>,
     country_patterns |-> <<>>, remote_keywords |-> <<>>,
     hybrid_keywords |-> <<>>, default_country |-> Null, ai_fallback |-> FALSE]

GoodCountryPatterns == << [regex |-> Regex(TRUE, {LocOther}), code |-> <<"U", "S", "A">>] >>
BrokenCountryPatterns == << [regex |-> Regex(FALSE, {}), code |-> <<"U", "S", "A">>] >>

DateSection(ai) ==
    [present |-> TRUE, method |-> "manual",
     relative |-> << [regex |-> Regex(FALSE, {}), unit |-> "days"],
                     [regex |-> Regex(TRUE, {DateRel}), unit |-> "days"] >>,
     formats |-> << "YYYY-MM-DD" >>, ai_fallback |-> ai]
NoDateSection ==
    [present |-> FALSE, method |-> "", relative |-> <<>>, formats |-> <<>>,
     ai_fallback |-> FALSE]

DescriptionSection(method, enabled) ==
    [present |-> TRUE, method |-> method, ai_enabled |-> enabled]

\* quality_checks: required_fields names fields of the candidate record
QualityChecks(fields, maxLen) ==
    [present |-> TRUE, required_fields |-> fields, max_title_length |-> maxLen]

SourceConfig(sal, exp, loc, dat, des, qc, pid) ==
    [salary |-> sal, experience_level |-> exp, location |-> loc, date |-> dat,
     description |-> des, quality_checks |-> qc, platform_id |-> pid]

\* the largest title the model's source configurations accept
ShortTitleLength == 2

DefaultChecks == QualityChecks(<<"title", "description">>, ShortTitleLength)

\* a complete, valid source configuration
GoodConfig ==
    SourceConfig(SalarySection(<<BrokenSalaryPattern, RangePattern, NegotiablePattern>>,
                               "manual", FALSE),
                 ExperienceSection(FALSE),
                 LocationSection(GoodCountryPatterns, "manual", FALSE),
                 DateSection(FALSE), DescriptionSection("manual", FALSE),
                 DefaultChecks, 1)
\* the same with AI fallbacks switched on and the manual methods switched off
AiConfig ==
    SourceConfig(SalarySection(<<RangePattern>>, "ai", TRUE),
                 ExperienceSection(TRUE),
                 LocationSection(GoodCountryPatterns, "none", TRUE),
                 DateSection(TRUE), DescriptionSection("ai", TRUE),
                 DefaultChecks, 1)
\* a document without the optional sections
BareConfig ==
    SourceConfig(NoSalarySection, NoExperienceSection, NoLocationSection,
                 NoDateSection, DescriptionSection("manual", FALSE),
                 DefaultChecks, 1)
\* a document whose country pattern does not compile
BadRegexConfig ==
    SourceConfig(SalarySection(<<BrokenSalaryPattern>>, "manual", FALSE),
                 ExperienceSection(FALSE),
                 LocationSection(BrokenCountryPatterns, "manual", FALSE),
                 DateSection(FALSE), DescriptionSection("manual", FALSE),
                 DefaultChecks, 1)

\* the README's "AI as fallback" setup: manual methods with ai_fallback enabled
FallbackConfig ==
    SourceConfig(SalarySection(<<RangePattern>>, "manual", TRUE),
                 ExperienceSectionWith("Lead", TRUE),
                 LocationSection(GoodCountryPatterns, "manual", TRUE),
                 DateSection(TRUE), DescriptionSection("manual", FALSE),
                 DefaultChecks, 1)
\* a document with the given default experience level and no AI fallback
DefaultLevelConfig(default) ==
    SourceConfig(SalarySection(<<RangePattern>>, "manual", FALSE),
                 ExperienceSectionWith(default, FALSE),
                 LocationSection(GoodCountryPatterns, "manual", FALSE),
                 DateSection(FALSE), DescriptionSection("manual", FALSE),
                 DefaultChecks, 1)
\* a document with the given salary patterns, in this order
PatternConfig(patterns) ==
    SourceConfig(SalarySection(patterns, "manual", FALSE),
                 ExperienceSection(FALSE),
                 LocationSection(GoodCountryPatterns, "manual", FALSE),
                 DateSection(FALSE), DescriptionSection("manual", FALSE),
                 DefaultChecks, 1)

\* the source configuration files, by name
SourceConfigs == {"good", "ai", "bare", "badregex"}

\* loadConfig: the parsed YAML of the named source configuration
loadConfig(name) ==
    CASE name = "good" -> GoodConfig
      [] name = "ai" -> AiConfig
      [] name = "bare" -> BareConfig
      [] OTHER -> BadRegexConfig


(***************************************************************************)
(* AI adapter: what AIProcessor.process hands back to a normalizer.  It    *)
(* catches every provider error, so a failed call is the null response.    *)
(***************************************************************************)
AiResponse(kind, text, iso) == [kind |-> kind, text |-> text, iso |-> iso]
AiNull == AiResponse("null", "", FALSE)
AiResponses ==
    {AiNull, AiResponse("string", "Senior", FALSE),
     AiResponse("string", "2024-01-05", TRUE), AiResponse("object", "", FALSE)}

(***************************************************************************)
(* Salary normalizer (utils/salary_parser.js).                             *)
(***************************************************************************)
Digit(c) ==
    CASE c = "0" -> 0 [] c = "1" -> 1 [] c = "2" -> 2 [] c = "3" -> 3
      [] c = "4" -> 4 [] c = "5" -> 5 [] c = "6" -> 6 [] c = "7" -> 7
      [] c = "8" -> 8 [] c = "9" -> 9 [] OTHER -> NaN

RECURSIVE DigitsValue(_, _)
\* value of the longest prefix of digits of s, continuing the value acc
DigitsValue(s, acc) ==
    IF s = <<>> \/ Digit(Head(s)) = NaN THEN acc
    ELSE DigitsValue(Tail(s), 10 * acc + Digit(Head(s)))

\* parseFloat / parseInt on a text of digits and other characters
ParseNumber(s) == IF s = <<>> \/ Digit(Head(s)) = NaN THEN NaN ELSE DigitsValue(s, 0)

RemoveSeparators(s) == SelectSeq(s, LAMBDA c : c # "," /\ c # " ")

cleanNumber(str) == IF Falsy(str) THEN 0 ELSE ParseNumber(RemoveSeparators(str))

SalaryValue(kind, min, max, average, currency, type) ==
    [kind |-> kind, min |-> min, max |-> max, average |-> average,
     currency |-> currency, type |-> type]
SalaryNull == SalaryValue("null", NullNum, NullNum, NullNum, Null, "")
\* parseSalary is not async: on the AI path it returns the pending promise
SalaryPromise == SalaryValue("promise", NullNum, NullNum, NullNum, Null, "")

extractSalaryFromMatch(text, pattern, salaryConfig) ==
    LET multiplier == IF pattern.multiplier = 0 THEN 1 ELSE pattern.multiplier
        currency ==
            IF ~Falsy(pattern.currency) THEN pattern.currency
            ELSE IF ~Falsy(Group(text, pattern.currency_group))
                 THEN Group(text, pattern.currency_group)
                 ELSE salaryConfig.default_currency
        min == Mul(cleanNumber(Group(text, pattern.min_group)), multiplier)
        max == Mul(cleanNumber(Group(text, pattern.max_group)), multiplier)
        val == Mul(cleanNumber(Group(text, pattern.value_group)), multiplier)
    IN  CASE pattern.type = "range" ->
               SalaryValue("value", min, max, Mean(min, max), currency, "range")
          [] pattern.type = "min" ->
               SalaryValue("value", val, NullNum, val, currency, "min")
          [] pattern.type = "max" ->
               SalaryValue("value", NullNum, val, val, currency, "max")
          [] pattern.type = "exact" ->
               SalaryValue("value", val, val, val, currency, "exact")
          [] pattern.type = "negotiable" ->
               SalaryValue("value", NullNum, NullNum, NullNum,
                           salaryConfig.default_currency, "negotiable")
          [] OTHER -> SalaryNull

RECURSIVE parseManualLast(_, _, _)
\* a loop in which a later matching pattern overrides an earlier one
parseManualLast(salaryText, salaryConfig, i) ==
    IF i > Len(salaryConfig.patterns) THEN SalaryNull
    ELSE LET pattern == salaryConfig.patterns[i]
             later == parseManualLast(salaryText, salaryConfig, i + 1)
         IN  IF later.kind # "null" THEN later
             ELSE IF pattern.regex.valid /\ salaryText \in pattern.regex.matches
                  THEN extractSalaryFromMatch(salaryText, pattern, salaryConfig)
                  ELSE SalaryNull

RECURSIVE parseManualFrom(_, _, _)
\* the loop of SalaryParser.parseManual from pattern i on
parseManualFrom(salaryText, salaryConfig, i) ==
    IF i > Len(salaryConfig.patterns) THEN SalaryNull
    ELSE LET pattern == salaryConfig.patterns[i]
         IN  IF ~pattern.regex.valid
             THEN parseManualFrom(salaryText, salaryConfig, i + 1)
             ELSE IF salaryText \in pattern.regex.matches
                  THEN extractSalaryFromMatch(salaryText, pattern, salaryConfig)
                  ELSE parseManualFrom(salaryText, salaryConfig, i + 1)

SalaryParseManual(salaryText, salaryConfig) == parseManualFrom(salaryText, salaryConfig, 1)

Method(section) == IF section.present /\ section.method # "" THEN section.method ELSE "manual"

parseSalary(salaryText, config) ==
    IF Falsy(salaryText) THEN SalaryNull
    ELSE LET method == Method(config.salary)
             manualResult ==
                 IF method \in {"manual", "ai"}
                 THEN SalaryParseManual(salaryText, config.salary)
                 ELSE SalaryNull
         IN  IF manualResult.kind # "null" THEN manualResult
             ELSE IF config.salary.ai_fallback /\ method = "ai" THEN SalaryPromise
                  ELSE SalaryNull

(***************************************************************************)
(* Experience-level normalizer (utils/experience_mapper.js).               *)
(***************************************************************************)
referenceMap ==
    [n \in {"Internship", "Entry", "Mid", "Senior", "Lead", "Executive"} |->
        CASE n = "Internship" -> 1 [] n = "Entry" -> 2 [] n = "Mid" -> 3
          [] n = "Senior" -> 4 [] n = "Lead" -> 5 [] n = "Executive" -> 6]

DefaultLevel(config) ==
    IF config.experience_level.default # NoLevel
    THEN config.experience_level.default ELSE "Entry"

RECURSIVE mapPartialFrom(_, _, _)
mapPartialFrom(lowerText, mappings, i) ==
    IF i > Len(mappings) THEN NoLevel
    ELSE IF Includes(lowerText, Lower(mappings[i][1]))
            \/ Includes(Lower(mappings[i][1]), lowerText)
         THEN mappings[i][2]
         ELSE mapPartialFrom(lowerText, mappings, i + 1)

mapManual(experienceText, experienceConfig) ==
    LET mappings == experienceConfig.mappings
        direct == {i \in 1..Len(mappings) : mappings[i][1] = experienceText}
    IN  IF direct # {} /\ mappings[CHOOSE i \in direct : TRUE][2] # NoLevel
        THEN mappings[CHOOSE i \in direct : TRUE][2]
        ELSE mapPartialFrom(Lower(experienceText), mappings, 1)

mapWithAI(ai) ==
    IF ai.kind = "string" /\ ai.text \in DOMAIN referenceMap THEN ai.text ELSE NoLevel

mapExperience(experienceText, config, ai) ==
    IF Falsy(experienceText) THEN DefaultLevel(config)
    ELSE LET method == Method(config.experience_level)
             manualResult ==
                 IF method \in {"manual", "ai"}
                 THEN mapManual(experienceText, config.experience_level)
                 ELSE NoLevel
         IN  IF manualResult # NoLevel THEN manualResult
             ELSE IF config.experience_level.ai_fallback /\ mapWithAI(ai) # NoLevel
                  THEN mapWithAI(ai)
                  ELSE DefaultLevel(config)

\* whether mapExperience reaches its call of mapWithAI
mapExperienceCallsAI(experienceText, config) ==
    /\ ~Falsy(experienceText)
    /\ ~(Method(config.experience_level) \in {"manual", "ai"}
            /\ mapManual(experienceText, config.experience_level) # NoLevel)
    /\ config.experience_level.ai_fallback

\* a lookup that answers Entry for every name
getExperienceLevelIdEntry(experienceName) == 2

getExperienceLevelId(experienceName) ==
    IF experienceName \in DOMAIN referenceMap THEN referenceMap[experienceName] ELSE 2


(***************************************************************************)
(* Location normalizer (utils/location_normalizer.js).  kind is "value",   *)
(* "promise" (the AI path of the non-async normalizeLocation) or "throw".  *)
(***************************************************************************)
LocationValue(kind, city, country, isRemote, isHybrid) ==
    [kind |-> kind, city |-> city, country |-> country,
     isRemote |-> isRemote, isHybrid |-> isHybrid]
LocationThrow == LocationValue("throw", Null, Null, FALSE, FALSE)
LocationPromise == LocationValue("promise", Null, Null, FALSE, FALSE)
\* what the promise of normalizeWithAI resolves to when the AI gave no object
LocationNull == LocationValue("null", Null, Null, FALSE, FALSE)

DefaultCountry(locationConfig) ==
    IF locationConfig.present /\ ~Falsy(locationConfig.default_country)
    THEN locationConfig.default_country ELSE <<"V", "N", "M">>

AnyKeyword(locationText, keywords) ==
    \E i \in 1..Len(keywords) : Includes(Lower(locationText), Lower(keywords[i]))

RECURSIVE mapCityFrom(_, _, _)
mapCityFrom(locationText, cityMappings, i) ==
    IF i > Len(cityMappings) THEN locationText
    ELSE IF Includes(locationText, cityMappings[i][1]) THEN cityMappings[i][2]
         ELSE mapCityFrom(locationText, cityMappings, i + 1)

RECURSIVE detectCountryFrom(_, _, _)
\* Null stands for the SyntaxError of new RegExp on a pattern that does not compile
detectCountryFrom(locationText, locationConfig, i) ==
    IF i > Len(locationConfig.country_patterns) THEN DefaultCountry(locationConfig)
    ELSE LET pattern == locationConfig.country_patterns[i]
         IN  IF ~pattern.regex.valid THEN Null
             ELSE IF locationText \in pattern.regex.matches THEN pattern.code
                  ELSE detectCountryFrom(locationText, locationConfig, i + 1)

\* a normalizer in which a mapped city is kept for a remote posting
normalizeManualCityKept(locationText, locationConfig) ==
    LET isRemote == AnyKeyword(locationText, locationConfig.remote_keywords)
        isHybrid == AnyKeyword(locationText, locationConfig.hybrid_keywords)
        city == mapCityFrom(locationText, locationConfig.city_mappings, 1)
        countryCode == detectCountryFrom(locationText, locationConfig, 1)
    IN  IF ~locationConfig.present THEN LocationThrow
        ELSE IF countryCode = Null THEN LocationThrow
        ELSE LocationValue("value", city, countryCode, isRemote, isHybrid)

normalizeManual(locationText, locationConfig) ==
    LET isRemote == AnyKeyword(locationText, locationConfig.remote_keywords)
        isHybrid == AnyKeyword(locationText, locationConfig.hybrid_keywords)
        city == mapCityFrom(locationText, locationConfig.city_mappings, 1)
        countryCode == detectCountryFrom(locationText, locationConfig, 1)
    IN  IF ~locationConfig.present THEN LocationThrow
        ELSE IF countryCode = Null THEN LocationThrow
        ELSE LocationValue("value", IF isRemote THEN <<"R", "e", "m", "o", "t", "e">> ELSE city,
                           countryCode, isRemote, isHybrid)

normalizeLocation(locationText, config) ==
    IF Falsy(locationText)
    THEN LocationValue("value", Null, DefaultCountry(config.location), FALSE, FALSE)
    ELSE LET method == Method(config.location)
         IN  IF method \in {"manual", "ai"}
             THEN normalizeManual(locationText, config.location)
             ELSE IF config.location.ai_fallback THEN LocationPromise
                  ELSE LocationValue("value", locationText,
                                     DefaultCountry(config.location), FALSE, FALSE)

(***************************************************************************)
(* Date normalizer (utils/date_parser.js).  A date is the processing date  *)
(* minus daysAgo days, or the date an absolute text denotes.               *)
(***************************************************************************)
DateValue(kind, daysAgo, abs) == [kind |-> kind, daysAgo |-> daysAgo, abs |-> abs]
DateNull == DateValue("null", 0, Null)
DatePromise == DateValue("promise", 0, Null)
\* no date where the processing date belongs
TodayMissing == DateNull

\* new Date().toISOString().split('T')[0]
Today == DateValue("iso", 0, Null)

\* the texts new Date(text) turns into a valid date
ParseableDates == {DateAbs}

calculateRelativeDate(value, unit) ==
    LET amount == ParseNumber(value)
    IN  CASE unit = "days" -> DateValue("iso", amount, Null)
          [] unit = "weeks" -> DateValue("iso", Mul(amount, 7), Null)
          [] OTHER -> DateNull

RECURSIVE parseRelativeFrom(_, _, _)
\* the first loop of DateParser.parseManual; "none" when no pattern returned
parseRelativeFrom(dateText, relative, i) ==
    IF i > Len(relative) THEN DateValue("none", 0, Null)
    ELSE LET pattern == relative[i]
             date == calculateRelativeDate(Group(dateText, 1), pattern.unit)
         IN  IF pattern.regex.valid /\ dateText \in pattern.regex.matches
                /\ ~(date.kind = "iso" /\ date.daysAgo = NaN)
             THEN date
             ELSE parseRelativeFrom(dateText, relative, i + 1)

tryParseFormat(dateText, format) ==
    IF dateText \in ParseableDates THEN DateValue("iso", 0, dateText) ELSE DateNull

DateParseManual(dateText, dateConfig) ==
    LET rel == parseRelativeFrom(dateText, dateConfig.relative, 1)
    IN  IF rel.kind # "none" THEN rel
        ELSE IF dateConfig.formats # <<>>
             THEN tryParseFormat(dateText, dateConfig.formats[1])
             ELSE DateNull

\* a date parser that asks the AI before its manual rules
parseDateAiFirst(dateText, config) ==
    IF Falsy(dateText) THEN DateNull
    ELSE IF config.date.ai_fallback THEN DatePromise
    ELSE IF Method(config.date) \in {"manual", "ai"}
         THEN DateParseManual(dateText, config.date)
         ELSE DateNull

parseDate(dateText, config) ==
    IF Falsy(dateText) THEN DateNull
    ELSE LET method == Method(config.date)
             manualResult ==
                 IF method \in {"manual", "ai"}
                 THEN DateParseManual(dateText, config.date)
                 ELSE DateNull
         IN  IF manualResult.kind # "null" THEN manualResult
             ELSE IF config.date.ai_fallback THEN DatePromise
                  ELSE DateNull

(***************************************************************************)
(* Description cleanup (BaseProcessor.processDescription).                 *)
(***************************************************************************)
DescriptionLimit == 10000

FirstIndex(s, c) ==
    IF \E i \in 1..Len(s) : s[i] = c
    THEN CHOOSE i \in 1..Len(s) : s[i] = c /\ \A j \in 1..(i - 1) : s[j] # c
    ELSE 0

RECURSIVE StripTags(_)
\* html.replace(/<[^>]*>/g, ' ')
StripTags(s) ==
    IF s = <<>> THEN <<>>
    ELSE IF Head(s) = "<" /\ FirstIndex(s, ">") > 0
         THEN <<" ">> \o StripTags(SubSeq(s, FirstIndex(s, ">") + 1, Len(s)))
         ELSE <<Head(s)>> \o StripTags(Tail(s))

RECURSIVE CollapseSpaces(_)
\* .replace(/\s+/g, ' ')
CollapseSpaces(s) ==
    IF Len(s) < 2 THEN s
    ELSE IF s[1] = " " /\ s[2] = " " THEN CollapseSpaces(Tail(s))
         ELSE <<Head(s)>> \o CollapseSpaces(Tail(s))

simpleCleanHtml(html) ==
    IF Falsy(html) THEN Null
    ELSE LET t == Trim(CollapseSpaces(StripTags(html)))
         IN  SubSeq(t, 1, IF Len(t) < DescriptionLimit THEN Len(t) ELSE DescriptionLimit)

\* the text an AI response stands for, as a description
AiText == <<"a", "i">>

processDescription(descriptionText, config, ai) ==
    IF Falsy(descriptionText) THEN Null
    ELSE IF config.description.method = "ai" /\ config.description.ai_enabled
            /\ ai.kind = "string"
         THEN AiText
         ELSE simpleCleanHtml(descriptionText)


(***************************************************************************)
(* Source processor (processors/BaseProcessor.js).                         *)
(***************************************************************************)
\* reference_tables.currencies of the global configuration
currencyMap(currency) ==
    CASE currency = VND -> 1 [] currency = USD -> 2 [] OTHER -> 0

getCurrencyId(currency) ==
    IF currencyMap(currency) # 0 THEN currencyMap(currency) ELSE currencyMap(VND)

\* new URL(url).hostname: a URL is a scheme "h:" and a host up to the first "/";
\* the URL parser lower-cases the host
extractDomain(url) ==
    IF Falsy(url) THEN Null
    ELSE IF Len(url) < 3 \/ SubSeq(url, 1, 2) # <<"h", ":">> THEN Null
    ELSE LET rest == SubSeq(url, 3, Len(url))
             cut == FirstIndex(rest, "/")
         IN  Lower(IF cut = 0 THEN rest ELSE SubSeq(rest, 1, cut - 1))

Candidate(throws, company, title, description, salaryPerMonth, currencyId, experienceLevelId, location, countryCode, postedDate, platformId, postUrl, crawledTime, rawJobId) ==
    [throws |-> throws, company |-> company, title |-> title,
     description |-> description, salaryPerMonth |-> salaryPerMonth,
     currencyId |-> currencyId, experienceLevelId |-> experienceLevelId,
     location |-> location, countryCode |-> countryCode, postedDate |-> postedDate,
     platformId |-> platformId, postUrl |-> postUrl, crawledTime |-> crawledTime,
     rawJobId |-> rawJobId]

NoCompany == [name |-> Null, location |-> Null, domain |-> Null]

\* transformJob rejected: an exception left it
TransformThrow(rawJob) ==
    Candidate(TRUE, NoCompany, Null, Null, NullNum, 0, 0, Null, Null, DateNull, 0,
              Null, 0, rawJob.job_id)

transformJob(rawJob, config, platformId, ai) ==
    LET salaryInfo == parseSalary(rawJob.salary, config)
        experienceLevel == mapExperience(rawJob.experience_level, config, ai)
        locationInfo == normalizeLocation(rawJob.location, config)
        parsed == parseDate(rawJob.listed_time, config)
        \* a pending promise is truthy: `parseDate(...) || today` keeps it
        postedDate == IF parsed.kind = "null" THEN Today ELSE parsed
        description == processDescription(rawJob.description, config, ai)
    IN  IF locationInfo.kind = "throw" THEN TransformThrow(rawJob)
        ELSE Candidate(FALSE,
                 [name |-> rawJob.company_name, location |-> rawJob.company_location,
                  domain |-> extractDomain(rawJob.company_url)],
                 rawJob.job_title, description,
                 IF salaryInfo.kind = "value" /\ TruthyNum(salaryInfo.average)
                 THEN salaryInfo.average ELSE NullNum,
                 getCurrencyId(IF salaryInfo.kind = "value" THEN salaryInfo.currency ELSE Null),
                 getExperienceLevelId(experienceLevel),
                 IF locationInfo.kind = "value" THEN locationInfo.city ELSE Null,
                 IF locationInfo.kind = "value" THEN locationInfo.country ELSE Null,
                 postedDate,
                 IF platformId # 0 THEN platformId ELSE config.platform_id,
                 rawJob.url, rawJob.crawled_time, rawJob.job_id)

\* job[field] of a candidate, for the fields a required_fields list may name
FieldMissing(job, field) ==
    CASE field = "title" -> Falsy(job.title)
      [] field = "description" -> Falsy(job.description)
      [] field = "postUrl" -> Falsy(job.postUrl)
      [] field = "location" -> Falsy(job.location)
      [] OTHER -> TRUE

MaxTitleLengthDefault == 500

validateJob(job, config) ==
    LET checks == config.quality_checks
        requiredFields == IF checks.present THEN checks.required_fields ELSE <<>>
        maxTitleLength ==
            IF checks.present /\ checks.max_title_length # 0
            THEN checks.max_title_length ELSE MaxTitleLengthDefault
    IN  /\ \A i \in 1..Len(requiredFields) : ~FieldMissing(job, requiredFields[i])
        /\ ~(~Falsy(job.title) /\ Len(job.title) > maxTitleLength)


(***************************************************************************)
(* Global configuration and the raw store's rows.                          *)
(***************************************************************************)
\* platforms of global.yaml, in declaration order, all enabled
PlatformKeys == <<"linkedin", "topcv">>

PlatformName(key) == IF key = "linkedin" THEN "LinkedIn" ELSE "TopCV"

\* reference_tables.platforms
PlatformId(name) == IF name = "LinkedIn" THEN 1 ELSE 2

\* the priorities a platform may be configured with
MaxPriority == 1
Priorities == 0..MaxPriority

\* settings.batch_size
BatchSize == 2

RawJob(id, platform, company, companyUrl, title, description, url) ==
    [job_id |-> id, platform |-> platform, company_name |-> company,
     company_location |-> <<"h">>, company_url |-> companyUrl, job_title |-> title,
     description |-> description, salary |-> SalRange, experience_level |-> ExpSenior,
     location |-> LocHcm, listed_time |-> DateRel, url |-> url, crawled_time |-> id]

CompanyUrl == <<"h", ":", "X", ".", "c", "/", "a">>

\* a title one character longer than the source configurations accept
LongTitle == [i \in 1..(ShortTitleLength + 1) |-> "d"]

\* job_posting joined with company: rows 1 and 2 are one company written in two
\* ways, without a URL; rows 3 and 4 are one posting of one company under two
\* URLs; row 5 has no description and too long a title
RawRows ==
    << RawJob(1, "LinkedIn", <<"A">>, Null, <<"d">>, DescHtml, <<"u", "1">>),
       RawJob(2, "LinkedIn", <<"a", " ">>, Null, <<"d">>, DescHtml, <<"u", "2">>),
       RawJob(3, "TopCV", <<"B">>, CompanyUrl, <<"q">>, DescHtml, <<"u", "3">>),
       RawJob(4, "TopCV", <<"B">>, CompanyUrl, <<"Q", " ">>, DescHtml, <<"u", "4">>),
       RawJob(5, "TopCV", <<"B">>, CompanyUrl, LongTitle, Null, <<"u", "5">>) >>

RawIds == 1..Len(RawRows)

\* bounds of the exploration
MaxCycles == 2
MaxEvents == 2

Slots == {1, 2}

VARIABLES
    priority,       \* globalConfig.platforms[key].priority
    config,         \* name of the source configuration every processor loaded
    processed,      \* job_posting.processed of each raw row
    company,        \* Company table of the normalized store, in creation order
    jobPost,        \* JobPost table of the normalized store, in creation order
    isProcessing,   \* DataProcessorApp.isProcessing
    phase,          \* where DataProcessorApp.start is: "boot", "first", "cron"
    cyc,            \* the locals of each pending processAllPlatforms call
    stats,          \* BaseProcessor.stats of each processor
    summary,        \* the totals the last finished cycle logged
    dropped,        \* cycle requests refused and logged
    failures,       \* store operations that have failed
    cycles,         \* cycles finished
    resets,         \* operator resets of the processed flags
    committed,      \* raw ids whose commit to the normalized store has completed once
    tIn, tOut,      \* input and result of a single transformJob call
    aiProcessor,    \* the AIProcessor singleton and its requests in flight
    fIn, fOut,      \* input and result of a single field normalizer call
    cr,             \* two concurrent create operations and their store
    app             \* the documents the process was started with, and whether it runs

sideVars == <<aiProcessor, fIn, fOut, cr>>

auxVars == <<sideVars, app>>

vars == <<priority, config, processed, company, jobPost, isProcessing, phase, cyc,
          stats, summary, dropped, failures, cycles, resets, committed, tIn, tOut,
          auxVars>>

storeVars == <<processed, company, jobPost>>

\* events of the environment so far: refused requests, failed store
\* operations, operator resets
Events == dropped + failures + resets

NoStats == [processed |-> 0, success |-> 0, failed |-> 0, errors |-> <<>>]

IdleCycle ==
    [pc |-> "idle", order |-> <<>>, platIdx |-> 0, rawJobs |-> <<>>, jobs |-> <<>>,
     jobIdx |-> 0, jobId |-> 0, inserted |-> 0, processedJobIds |-> <<>>,
     totals |-> [processed |-> 0, success |-> 0, failed |-> 0],
     \* history of the cycle: platforms fetched, in order; raw ids that
     \* processJobs turned into candidates; raw ids whose commit was attempted;
     \* raw ids whose commit threw
     visited |-> <<>>, transformed |-> {}, attempted |-> {}, failedCommit |-> {}]

TransformInput(salary, experience, location, listed, description, cfg, ai) ==
    [rawJob |-> [job_id |-> 1, platform |-> "LinkedIn", company_name |-> <<"A">>,
                 company_location |-> Null, company_url |-> Null,
                 job_title |-> <<"d">>, description |-> description,
                 salary |-> salary, experience_level |-> experience,
                 location |-> location, listed_time |-> listed,
                 url |-> <<"u", "1">>, crawled_time |-> 1],
     config |-> cfg, ai |-> ai]

NoTransform == [done |-> FALSE, job |-> TransformThrow([job_id |-> 0])]

\* the AIProcessor singleton after its constructor: AI_ENABLED, whether the
\* provider's API key is set, AI_PROVIDER, dailyCallCount; with it the provider
\* calls made since the last reset, the requests waiting for the provider,
\* and what the last process() call did and returned
AiAdapter(enabled, hasKey, provider) ==
    [enabled |-> enabled, hasKey |-> hasKey, provider |-> provider,
     dailyCallCount |-> 0, calls |-> 0, requests |-> 0, waiting |-> {},
     lastOp |-> "none", last |-> AiNull]

AiOff == AiAdapter(FALSE, FALSE, "gemini")

\* a field normalizer call: the field, the column's text, the source
\* configuration and what a provider call would come to
FieldInput(field, text, cfg, outcome) ==
    [field |-> field, text |-> text, config |-> cfg, outcome |-> outcome]

\* what an awaited field normalizer call came to: whether process() was
\* invoked and whether it threw to the normalizer, and the field's value
FieldResult(done, aiCalled, processThrew, salary, level, levelId, location, date) ==
    [done |-> done, aiCalled |-> aiCalled, processThrew |-> processThrew,
     salary |-> salary, level |-> level, levelId |-> levelId,
     location |-> location, date |-> date]

\* no field normalizer call
NoField == FieldInput("none", Null, BareConfig, [error |-> TRUE, response |-> AiNull])
NoFieldResult ==
    FieldResult(FALSE, FALSE, FALSE, SalaryNull, NoLevel, 0, LocationThrow, DateNull)

\* no create operation: impl names the store code ("part_003": the lookup and
\* insert functions, "part_004": DatabaseService), kind the table, ops the
\* calls in flight
NoCreate == [impl |-> "none", kind |-> "none", table |-> <<>>, ops |-> <<>>]

\* the process and its documents: what config/global.yaml is ("ok",
\* "malformed", "noPlatforms", "noSettings"), whether BATCH_SIZE is set in the
\* environment, whether the sources' documents parse, and where the process
\* is ("new", "constructed", "exited")
App(global, batchEnv, sourceParses, state) ==
    [global |-> global, batchEnv |-> batchEnv, sourceParses |-> sourceParses,
     state |-> state]

\* a process constructed from documents that load
AppOk == App("ok", FALSE, TRUE, "constructed")

AuxIdle ==
    /\ aiProcessor = AiOff /\ fIn = NoField /\ fOut = NoFieldResult /\ cr = NoCreate
    /\ app = AppOk


(***************************************************************************)
(* Store operations (services/database.js).  A row's id is its position    *)
(* in creation order; id 0 is JavaScript's undefined.                      *)
(***************************************************************************)
StoreResult(throws, table, id) == [throws |-> throws, table |-> table, id |-> id]

\* SELECT ... WHERE processed = FALSE AND platform = $1 ORDER BY crawled_time LIMIT $2
getUnprocessedJobs(platform, limit) ==
    LET rows == SelectSeq(RawRows, LAMBDA r : ~processed[r.job_id] /\ r.platform = platform)
    IN  SubSeq(rows, 1, IF Len(rows) < limit THEN Len(rows) ELSE limit)

\* UPDATE job_posting SET processed = TRUE WHERE job_id = ANY($1)
markJobsProcessed(jobIds) ==
    [id \in RawIds |-> processed[id] \/ \E i \in 1..Len(jobIds) : jobIds[i] = id]

\* INSERT INTO Company ... ON CONFLICT (Name, Domain) DO UPDATE SET Location ...
\* RETURNING Id.  UNIQUE(Name, Domain) compares exactly, and a NULL domain
\* never conflicts.  Name is NOT NULL.
upsertCompany(table, companyData) ==
    LET same == {i \in 1..Len(table) :
                    /\ table[i].name = companyData.name
                    /\ companyData.domain # Null
                    /\ table[i].domain = companyData.domain}
        hit == CHOOSE i \in same : TRUE
    IN  IF companyData.name = Null THEN StoreResult(TRUE, table, 0)
        ELSE IF same # {}
             THEN StoreResult(FALSE,
                      [table EXCEPT ![hit].location = companyData.location], hit)
             ELSE StoreResult(FALSE,
                      Append(table, [id |-> Len(table) + 1, name |-> companyData.name,
                                     location |-> companyData.location,
                                     domain |-> companyData.domain]),
                      Len(table) + 1)

\* JobPost.Title VARCHAR(500)
TitleColumnLimit == 500

JobRow(id, companyId, job) ==
    [id |-> id, companyId |-> companyId, title |-> job.title,
     description |-> job.description, salaryPerMonth |-> job.salaryPerMonth,
     currencyId |-> job.currencyId, experienceLevelId |-> job.experienceLevelId,
     location |-> job.location, countryCode |-> job.countryCode,
     postedDate |-> job.postedDate, platformId |-> job.platformId,
     postUrl |-> job.postUrl, crawledTime |-> job.crawledTime]

\* INSERT INTO JobPost ... ON CONFLICT (PostUrl) DO NOTHING RETURNING Id:
\* on a conflict no row comes back and result.rows[0]?.id is undefined
insertJobPost(table, companyId, job) ==
    IF job.title = Null \/ Len(job.title) > TitleColumnLimit \/ job.postUrl = Null
       \/ job.platformId = 0
    THEN StoreResult(TRUE, table, 0)
    ELSE IF \E i \in 1..Len(table) : table[i].postUrl = job.postUrl
         THEN StoreResult(FALSE, table, 0)
         ELSE StoreResult(FALSE, Append(table, JobRow(Len(table) + 1, companyId, job)),
                          Len(table) + 1)

(***************************************************************************)
(* Orchestrator (data-processor/index.js).                                 *)
(***************************************************************************)
DefaultPriority == 999

\* `priority || 999`
EffectivePriority(key) == IF priority[key] # 0 THEN priority[key] ELSE DefaultPriority

RECURSIVE InsertByPriority(_, _)
\* Array.prototype.sort is stable: key goes behind every entry that does not
\* compare greater
InsertByPriority(sorted, key) ==
    IF sorted = <<>> THEN <<key>>
    ELSE IF EffectivePriority(Head(sorted)) - EffectivePriority(key) <= 0
         THEN <<Head(sorted)>> \o InsertByPriority(Tail(sorted), key)
         ELSE <<key>> \o sorted

RECURSIVE SortFrom(_, _)
SortFrom(keys, sorted) ==
    IF keys = <<>> THEN sorted ELSE SortFrom(Tail(keys), InsertByPriority(sorted, Head(keys)))

sortedPlatforms == SortFrom(PlatformKeys, <<>>)

Running == {c \in Slots : cyc[c].pc # "idle"}

\* the slot a new call of processAllPlatforms takes
FreeSlot == CHOOSE c \in Slots : cyc[c].pc = "idle" /\ \A d \in Slots : cyc[d].pc = "idle" => c <= d

\* a cycle that starts without raising the flag
SetBusyForgotten == FALSE

\* this.isProcessing = true
SetBusy == TRUE

\* the request is refused and the refusal logged
Drop ==
    /\ Events < MaxEvents
    /\ dropped' = dropped + 1
    /\ UNCHANGED <<priority, config, processed, company, jobPost, isProcessing,
                   cyc, stats, summary, failures, cycles, resets, committed, tIn, tOut, auxVars>>

\* line 123: parseInt(process.env.BATCH_SIZE) || this.globalConfig.settings.batch_size
\* is a TypeError when BATCH_SIZE is unset and the document has no settings
BatchSizeThrows == ~app.batchEnv /\ app.global = "noSettings"

\* lines 115-131; the TypeError of line 123 is outside every try block: the
\* call rejects with the flag raised, and the rejection, which nothing
\* handles, ends the process or not, depending on the runtime
Begin(c) ==
    /\ cycles < MaxCycles
    /\ isProcessing' = SetBusy
    /\ IF BatchSizeThrows
       THEN /\ cyc' = [cyc EXCEPT ![c] = [IdleCycle EXCEPT !.pc = "threw"]]
            /\ \E dies \in BOOLEAN :
                 app' = [app EXCEPT !.state = IF dies THEN "exited" ELSE @]
       ELSE /\ cyc' = [cyc EXCEPT ![c] =
                         [IdleCycle EXCEPT !.order = sortedPlatforms, !.platIdx = 1,
                              !.pc = IF sortedPlatforms = <<>> THEN "finish" ELSE "fetch"]]
            /\ app' = app
    /\ UNCHANGED <<priority, config, processed, company, jobPost, stats, summary,
                   dropped, failures, cycles, resets, committed, tIn, tOut, sideVars>>

\* processAllPlatforms up to its first await
processAllPlatforms(c) ==
    IF isProcessing THEN Drop ELSE Begin(c)

\* start(): the first cycle is awaited before the schedule is registered
StartCall ==
    /\ phase = "boot"
    /\ app.state = "constructed"
    /\ phase' = "first"
    /\ processAllPlatforms(FreeSlot)

\* the cron callback
CronTick ==
    /\ phase = "cron"
    /\ Running # Slots
    /\ IF ~isProcessing THEN processAllPlatforms(FreeSlot) ELSE Drop
    /\ UNCHANGED phase

\* the cycle's locals on leaving the current platform
NextPlatform(cy) ==
    [cy EXCEPT !.pc = IF cy.platIdx < Len(cy.order) THEN "fetch" ELSE "finish",
               !.platIdx = cy.platIdx + 1, !.rawJobs = <<>>, !.jobs = <<>>,
               !.jobIdx = 0, !.jobId = 0, !.inserted = 0, !.processedJobIds = <<>>]


\* a store operation may fail (connection drop, timeout) while the budget lasts
StoreMayFail(fails) ==
    /\ fails => Events < MaxEvents
    /\ failures' = IF fails THEN failures + 1 ELSE failures

\* lines 139-150: fetch the platform's batch; an empty batch is skipped, a
\* failed fetch is caught by the platform's try block
Fetch(c) ==
    /\ cyc[c].pc = "fetch"
    /\ \E fails \in BOOLEAN :
         LET cy == [cyc[c] EXCEPT !.visited = Append(@, cyc[c].order[cyc[c].platIdx])]
             rawJobs == getUnprocessedJobs(PlatformName(cy.order[cy.platIdx]), BatchSize)
         IN  /\ StoreMayFail(fails)
             /\ cyc' = [cyc EXCEPT ![c] =
                          IF fails \/ rawJobs = <<>> THEN NextPlatform(cy)
                          ELSE [cy EXCEPT !.pc = "transform", !.rawJobs = rawJobs]]
    /\ UNCHANGED <<priority, config, processed, company, jobPost, isProcessing, phase,
                   stats, summary, dropped, cycles, resets, committed, tIn, tOut, auxVars>>

\* the candidates of a batch, in order: BaseProcessor.processJobs keeps the
\* records whose transformJob returned
TransformAll(rawJobs, platformId) ==
    [i \in 1..Len(rawJobs) |-> transformJob(rawJobs[i], loadConfig(config), platformId, AiNull)]

processJobs(rawJobs, platformId) ==
    SelectSeq(TransformAll(rawJobs, platformId), LAMBDA job : ~job.throws)

\* the processor's counters after processJobs
statsAfter(st, rawJobs, platformId) ==
    LET all == TransformAll(rawJobs, platformId)
        thrown == SelectSeq(all, LAMBDA job : job.throws)
    IN  [processed |-> st.processed + Len(rawJobs),
         success |-> st.success + (Len(all) - Len(thrown)),
         failed |-> st.failed + Len(thrown),
         errors |-> st.errors \o [i \in 1..Len(thrown) |-> thrown[i].rawJobId]]

\* line 153
Transform(c) ==
    /\ cyc[c].pc = "transform"
    /\ LET key == cyc[c].order[cyc[c].platIdx]
           platformId == PlatformId(PlatformName(key))
           jobs == processJobs(cyc[c].rawJobs, platformId)
       IN  /\ stats' = [stats EXCEPT ![key] = statsAfter(@, cyc[c].rawJobs, platformId)]
           /\ cyc' = [cyc EXCEPT ![c].jobs = jobs, ![c].jobIdx = 1,
                                 ![c].transformed =
                                     @ \cup {jobs[i].rawJobId : i \in 1..Len(jobs)},
                                 ![c].pc = IF jobs = <<>> THEN "mark" ELSE "commit"]
    /\ UNCHANGED <<priority, config, processed, company, jobPost, isProcessing, phase,
                   summary, dropped, failures, cycles, resets, committed, tIn, tOut, auxVars>>

\* the exception of a store call leaves the loop and ends the platform's batch
AfterCommitAborting(cy, jobId, threw) ==
    IF threw THEN NextPlatform(cy)
    ELSE [cy EXCEPT !.jobId = jobId,
                    !.inserted = IF jobId # 0 THEN @ + 1 ELSE @,
                    !.processedJobIds =
                        IF jobId # 0 THEN Append(@, cy.jobs[cy.jobIdx].rawJobId) ELSE @,
                    !.attempted = @ \cup {cy.jobs[cy.jobIdx].rawJobId},
                    !.jobIdx = @ + 1,
                    !.pc = IF cy.jobIdx = Len(cy.jobs) THEN "mark" ELSE "commit"]

\* a loop step that pushes the raw id whatever insertJobPost returned
AfterCommitAlwaysPushed(cy, jobId, threw) ==
    [cy EXCEPT !.jobId = jobId,
               !.inserted = IF jobId # 0 THEN @ + 1 ELSE @,
               !.processedJobIds = Append(@, cy.jobs[cy.jobIdx].rawJobId),
               !.attempted = @ \cup {cy.jobs[cy.jobIdx].rawJobId},
               !.failedCommit =
                   IF threw THEN @ \cup {cy.jobs[cy.jobIdx].rawJobId} ELSE @,
               !.jobIdx = @ + 1,
               !.pc = IF cy.jobIdx = Len(cy.jobs) THEN "mark" ELSE "commit"]

\* lines 181-188: the loop's step after one candidate; an exception of either
\* store call is caught inside the loop, which goes on with the next candidate
AfterCommit(cy, jobId, threw) ==
    [cy EXCEPT !.jobId = jobId,
               !.inserted = IF jobId # 0 THEN @ + 1 ELSE @,
               !.processedJobIds =
                   IF jobId # 0 THEN Append(@, cy.jobs[cy.jobIdx].rawJobId) ELSE @,
               !.attempted = @ \cup {cy.jobs[cy.jobIdx].rawJobId},
               !.failedCommit =
                   IF threw THEN @ \cup {cy.jobs[cy.jobIdx].rawJobId} ELSE @,
               !.jobIdx = @ + 1,
               !.pc = IF cy.jobIdx = Len(cy.jobs) THEN "mark" ELSE "commit"]

\* lines 159-188: commit one candidate
Commit(c) ==
    /\ cyc[c].pc = "commit"
    /\ \E outcome \in {"ok", "upsertFails", "insertFails"} :
         LET cy == cyc[c]
             job == cy.jobs[cy.jobIdx]
             up == upsertCompany(company, job.company)
             ins == insertJobPost(jobPost, up.id, job)
             upserted == outcome # "upsertFails" /\ ~up.throws
             inserted == upserted /\ outcome = "ok" /\ ~ins.throws
             jobId == IF inserted THEN ins.id ELSE 0
         IN  /\ StoreMayFail(outcome # "ok")
             /\ company' = IF upserted THEN up.table ELSE company
             /\ jobPost' = IF inserted THEN ins.table ELSE jobPost
             /\ committed' = IF inserted THEN committed \cup {job.rawJobId} ELSE committed
             /\ cyc' = [cyc EXCEPT ![c] = AfterCommit(cy, jobId, ~inserted)]
    /\ UNCHANGED <<priority, config, processed, isProcessing, phase, stats, summary,
                   dropped, cycles, resets, tIn, tOut, auxVars>>

\* lines 190-211: mark the batch, add the processor's counters to the totals
\* and reset them; a failed update is caught by the platform's try block
Mark(c) ==
    /\ cyc[c].pc = "mark"
    /\ \E fails \in BOOLEAN :
         LET cy == cyc[c]
             key == cy.order[cy.platIdx]
             st == stats[key]
         IN  /\ fails => cy.processedJobIds # <<>>
             /\ StoreMayFail(fails)
             /\ processed' = IF fails \/ cy.processedJobIds = <<>> THEN processed
                             ELSE markJobsProcessed(cy.processedJobIds)
             /\ stats' = IF fails THEN stats ELSE [stats EXCEPT ![key] = NoStats]
             /\ cyc' = [cyc EXCEPT ![c] =
                          IF fails THEN NextPlatform(cy)
                          ELSE NextPlatform(
                                 [cy EXCEPT !.totals =
                                    [processed |-> @.processed + st.processed,
                                     success |-> @.success + st.success,
                                     failed |-> @.failed + st.failed]])]
    /\ UNCHANGED <<priority, config, company, jobPost, isProcessing, phase, summary,
                   dropped, cycles, resets, committed, tIn, tOut, auxVars>>

\* lines 218-228: log the summary and release the guard
Finish(c) ==
    /\ cyc[c].pc = "finish"
    /\ summary' = cyc[c].totals
    /\ isProcessing' = FALSE
    /\ phase' = IF phase = "first" THEN "cron" ELSE phase
    /\ cyc' = [cyc EXCEPT ![c] = IdleCycle]
    /\ cycles' = cycles + 1
    /\ UNCHANGED <<priority, config, processed, company, jobPost, stats, dropped,
                   failures, resets, committed, tIn, tOut, auxVars>>

\* the operator's documented reset of one platform:
\* UPDATE job_posting SET processed = FALSE ... WHERE platform = $1
ResetProcessed ==
    /\ Events < MaxEvents
    /\ \E k \in 1..Len(PlatformKeys) :
         LET platform == PlatformName(PlatformKeys[k])
         IN  /\ \E id \in RawIds : processed[id] /\ RawRows[id].platform = platform
             /\ processed' = [id \in RawIds |->
                                 processed[id] /\ RawRows[id].platform # platform]
    /\ resets' = resets + 1
    /\ UNCHANGED <<priority, config, company, jobPost, isProcessing, phase, cyc, stats,
                   summary, dropped, failures, cycles, committed, tIn, tOut, auxVars>>

\* the source configurations the cycle is explored with
CycleConfigs == {"good", "bare"}

Init ==
    /\ priority \in [{PlatformKeys[i] : i \in 1..Len(PlatformKeys)} -> Priorities]
    /\ config \in CycleConfigs
    /\ processed = [id \in RawIds |-> FALSE]
    /\ company = <<>>
    /\ jobPost = <<>>
    /\ isProcessing = FALSE
    /\ phase = "boot"
    /\ cyc = [c \in Slots |-> IdleCycle]
    /\ stats = [k \in {PlatformKeys[i] : i \in 1..Len(PlatformKeys)} |-> NoStats]
    /\ summary = [processed |-> 0, success |-> 0, failed |-> 0]
    /\ dropped = 0
    /\ failures = 0
    /\ cycles = 0
    /\ resets = 0
    /\ committed = {}
    /\ tIn = TransformInput(Null, Null, Null, Null, Null, "good", AiNull)
    /\ tOut = NoTransform
    /\ AuxIdle

Next ==
    \/ StartCall
    \/ CronTick
    \/ \E c \in Slots : Fetch(c)
    \/ \E c \in Slots : Transform(c)
    \/ \E c \in Slots : Commit(c)
    \/ \E c \in Slots : Mark(c)
    \/ \E c \in Slots : Finish(c)
    \/ ResetProcessed

Spec == Init /\ [][Next]_vars


(***************************************************************************)
(* The process from its start: new DataProcessorApp(), then app.start().   *)
(***************************************************************************)
GlobalDocuments == {"ok", "malformed", "noPlatforms", "noSettings"}

\* the constructor: loadGlobalConfig exits on a document that does not load;
\* initializeProcessors reads globalConfig.platforms and constructs the
\* processors, whose loadConfig rethrows what reading the document threw
Construct ==
    /\ app.state = "new"
    /\ app' = [app EXCEPT !.state =
                  IF app.global = "malformed" THEN "exited"
                  ELSE IF app.global = "noPlatforms" THEN "exited"
                  ELSE IF ~app.sourceParses THEN "exited"
                  ELSE "constructed"]
    /\ UNCHANGED <<priority, config, processed, company, jobPost, isProcessing, phase,
                   cyc, stats, summary, dropped, failures, cycles, resets, committed,
                   tIn, tOut, sideVars>>

InitStart ==
    /\ priority = [k \in {PlatformKeys[i] : i \in 1..Len(PlatformKeys)} |-> 1]
    /\ config \in CycleConfigs
    /\ processed = [id \in RawIds |-> FALSE]
    /\ company = <<>>
    /\ jobPost = <<>>
    /\ isProcessing = FALSE
    /\ phase = "boot"
    /\ cyc = [c \in Slots |-> IdleCycle]
    /\ stats = [k \in {PlatformKeys[i] : i \in 1..Len(PlatformKeys)} |-> NoStats]
    /\ summary = [processed |-> 0, success |-> 0, failed |-> 0]
    /\ dropped = 0
    /\ failures = 0
    /\ cycles = 0
    /\ resets = 0
    /\ committed = {}
    /\ tIn = TransformInput(Null, Null, Null, Null, Null, "good", AiNull)
    /\ tOut = NoTransform
    /\ aiProcessor = AiOff /\ fIn = NoField /\ fOut = NoFieldResult /\ cr = NoCreate
    /\ app \in {App(global, batchEnv, sourceParses, "new") :
                  global \in GlobalDocuments, batchEnv \in BOOLEAN,
                  sourceParses \in BOOLEAN}

NextStart == Construct \/ Next

SpecStart == InitStart /\ [][NextStart]_vars

(***************************************************************************)
(* The process under a schedule that goes on for ever.  The count of       *)
(* finished cycles is a window: when it is full and no cycle runs it       *)
(* starts again, so that the cron callback keeps firing.  A step of the    *)
(* process that can be taken is taken in the end; failures of the store    *)
(* and resets by the operator are not owed.                                *)
(***************************************************************************)
(***************************************************************************)
(* The cron schedule never ends: once the counted cycles are used up and   *)
(* no cycle is running, the count starts again.  The Company table grows   *)
(* by one row for every re-committed record without a domain, so the count *)
(* starts again only while the table is below MaxCompanyRows.              *)
(***************************************************************************)
MaxCompanyRows == 5

ScheduleCapped == Len(company) >= MaxCompanyRows

ForgetCycles ==
    /\ cycles = MaxCycles
    /\ Running = {}
    /\ ~ScheduleCapped
    /\ cycles' = 0
    /\ UNCHANGED <<priority, config, processed, company, jobPost, isProcessing, phase,
                   cyc, stats, summary, dropped, failures, resets, committed, tIn, tOut,
                   auxVars>>

NextLive == Construct \/ Next \/ ForgetCycles

(***************************************************************************)
(* Node's event loop runs every continuation that is ready: the module     *)
(* body, the cron callback and each awaited step of a running cycle.  The  *)
(* synchronous transformation of a fetched batch is enabled exactly while  *)
(* the cycle is at "transform" and always leaves it, so its weak fairness  *)
(* is written as the state form of WF_vars(Transform(c)).                  *)
(***************************************************************************)
Fairness ==
    /\ WF_vars(Construct) /\ WF_vars(StartCall) /\ WF_vars(CronTick)
    /\ WF_vars(ForgetCycles)
    /\ \A c \in Slots :
          /\ WF_vars(Fetch(c)) /\ WF_vars(Commit(c))
          /\ WF_vars(Mark(c)) /\ WF_vars(Finish(c))
          /\ []<>(cyc[c].pc # "transform")

SpecLive == InitStart /\ [][NextLive]_vars /\ Fairness


(***************************************************************************)
(* A single transformJob call on inputs drawn from the columns' texts.     *)
(***************************************************************************)
InitTransform ==
    /\ tIn \in {TransformInput(sal, ex, loc, dat, des, cfg, ai) :
                  sal \in {Null, SalRange, SalJunk}, ex \in {Null, ExpSenior, ExpJunk},
                  loc \in {Null, LocHcm, LocRemoteHcm}, dat \in {Null, DateRel, DateJunk},
                  des \in {Null, DescHtml}, cfg \in SourceConfigs, ai \in AiResponses}
    /\ tOut = NoTransform
    /\ priority = [k \in {PlatformKeys[i] : i \in 1..Len(PlatformKeys)} |-> 1]
    /\ config = "good"
    /\ processed = [id \in RawIds |-> FALSE]
    /\ company = <<>>
    /\ jobPost = <<>>
    /\ isProcessing = FALSE
    /\ phase = "boot"
    /\ cyc = [c \in Slots |-> IdleCycle]
    /\ stats = [k \in {PlatformKeys[i] : i \in 1..Len(PlatformKeys)} |-> NoStats]
    /\ summary = [processed |-> 0, success |-> 0, failed |-> 0]
    /\ dropped = 0
    /\ failures = 0
    /\ cycles = 0
    /\ resets = 0
    /\ committed = {}
    /\ AuxIdle

ApplyTransform ==
    /\ ~tOut.done
    /\ tOut' = [done |-> TRUE,
                job |-> transformJob(tIn.rawJob, loadConfig(tIn.config), PlatformId("LinkedIn"), tIn.ai)]
    /\ UNCHANGED <<priority, config, processed, company, jobPost, isProcessing, phase,
                   cyc, stats, summary, dropped, failures, cycles, resets, committed, tIn, auxVars>>

NextTransform == ApplyTransform

SpecTransform == InitTransform /\ [][NextTransform]_vars

(***************************************************************************)
(* The AI adapter (services/ai_processor.js) under concurrent requests.    *)
(***************************************************************************)
\* this.dailyLimit
dailyLimit == 10000

\* how far below the limit an exploration may start, and the requests made
NearLimit == 2
MaxRequests == 4

AiSlots == {1, 2}

KnownProviders == {"gemini", "claude", "openai"}

\* getApiKey: the key of the environment for a known provider, else null
getApiKey(provider, keySet) == keySet /\ provider \in KnownProviders

\* what a provider call comes to: a response, or an error that process catches
ProviderOutcomes ==
    {[error |-> TRUE, response |-> AiNull]}
        \cup {[error |-> FALSE, response |-> r] : r \in AiResponses}

\* the checks of process() before its try block
mayCall(a) == a.enabled /\ a.hasKey /\ a.dailyCallCount < dailyLimit

\* a request that does not count itself
incrementSkipped(n) == n

\* this.dailyCallCount++
incrementDailyCount(n) == n + 1

\* process() up to its first await: the checks, the count and the provider switch
AiRequest(s) ==
    /\ s \notin aiProcessor.waiting
    /\ aiProcessor.requests < MaxRequests
    /\ aiProcessor' =
          LET a == [aiProcessor EXCEPT !.requests = @ + 1]
          IN  IF ~mayCall(a)
              THEN [a EXCEPT !.lastOp = "refused", !.last = AiNull]
              ELSE IF a.provider \in KnownProviders
                   THEN [a EXCEPT !.dailyCallCount = incrementDailyCount(@),
                                  !.calls = @ + 1, !.waiting = @ \cup {s},
                                  !.lastOp = "called"]
                   ELSE [a EXCEPT !.dailyCallCount = incrementDailyCount(@),
                                  !.lastOp = "returned", !.last = AiNull]
    /\ UNCHANGED <<priority, config, processed, company, jobPost, isProcessing, phase,
                   cyc, stats, summary, dropped, failures, cycles, resets, committed,
                   tIn, tOut, fIn, fOut, cr, app>>

\* the provider call of a waiting request ends; an error is caught and gives null
AiReturn(s) ==
    /\ s \in aiProcessor.waiting
    /\ \E outcome \in ProviderOutcomes :
         aiProcessor' = [aiProcessor EXCEPT
                            !.waiting = @ \ {s}, !.lastOp = "returned",
                            !.last = IF outcome.error THEN AiNull ELSE outcome.response]
    /\ UNCHANGED <<priority, config, processed, company, jobPost, isProcessing, phase,
                   cyc, stats, summary, dropped, failures, cycles, resets, committed,
                   tIn, tOut, fIn, fOut, cr, app>>

\* resetDailyCount, called by the midnight schedule
resetDailyCount ==
    /\ aiProcessor' = [aiProcessor EXCEPT !.dailyCallCount = 0, !.calls = 0,
                                          !.lastOp = "reset"]
    /\ UNCHANGED <<priority, config, processed, company, jobPost, isProcessing, phase,
                   cyc, stats, summary, dropped, failures, cycles, resets, committed,
                   tIn, tOut, fIn, fOut, cr, app>>

\* the main variables at rest, for the specifications of the parts
MainIdle ==
    /\ priority = [k \in {PlatformKeys[i] : i \in 1..Len(PlatformKeys)} |-> 1]
    /\ config = "good"
    /\ processed = [id \in RawIds |-> FALSE]
    /\ company = <<>>
    /\ jobPost = <<>>
    /\ isProcessing = FALSE
    /\ phase = "boot"
    /\ cyc = [c \in Slots |-> IdleCycle]
    /\ stats = [k \in {PlatformKeys[i] : i \in 1..Len(PlatformKeys)} |-> NoStats]
    /\ summary = [processed |-> 0, success |-> 0, failed |-> 0]
    /\ dropped = 0
    /\ failures = 0
    /\ cycles = 0
    /\ resets = 0
    /\ committed = {}
    /\ tIn = TransformInput(Null, Null, Null, Null, Null, "good", AiNull)
    /\ tOut = NoTransform

\* a counter above zero needs an adapter that has been making calls
InitAI ==
    /\ MainIdle
    /\ \E enabled \in BOOLEAN, keySet \in BOOLEAN,
          provider \in {"gemini", "claude", "mistral"},
          start \in {0} \cup ((dailyLimit - NearLimit)..dailyLimit) :
         /\ start > 0 => enabled /\ getApiKey(provider, keySet)
         /\ aiProcessor = [AiAdapter(enabled, getApiKey(provider, keySet), provider)
                              EXCEPT !.dailyCallCount = start, !.calls = start]
    /\ fIn = NoField
    /\ fOut = NoFieldResult
    /\ cr = NoCreate
    /\ app = AppOk

NextAI ==
    \/ \E s \in AiSlots : AiRequest(s)
    \/ \E s \in AiSlots : AiReturn(s)
    \/ resetDailyCount

SpecAI == InitAI /\ [][NextAI]_vars

(***************************************************************************)
(* One awaited field normalizer call with the AI adapter behind it.        *)
(***************************************************************************)
\* the longest salary pattern list of a generated source configuration
MaxPatterns == 2

KnownPatterns ==
    {BrokenSalaryPattern, RangePattern, MinPattern, NegotiablePattern, LooseRangePattern}

PatternLists == UNION {[1..n -> KnownPatterns] : n \in 0..MaxPatterns}

BaseConfigs ==
    {loadConfig(name) : name \in SourceConfigs}
        \cup {FallbackConfig, DefaultLevelConfig("Mid"), DefaultLevelConfig("Junior")}

Fields == {"salary", "experience", "location", "date"}

FieldTexts(field) ==
    CASE field = "salary" -> {Null, SalRange, SalFrom, SalNegotiable, SalJunk, SalWords}
      [] field = "experience" -> {Null, ExpSenior, ExpJunk}
      [] field = "location" -> {Null, LocHcm, LocRemoteHcm, LocHybridHcm, LocOther}
      [] OTHER -> {Null, DateRel, DateAbs, DateJunk}

FieldConfigs(field) ==
    IF field = "salary"
    THEN BaseConfigs \cup {PatternConfig(ps) : ps \in PatternLists}
    ELSE BaseConfigs

\* a provider error that escapes process()
rethrowProviderError == [threw |-> TRUE, response |-> AiNull]

\* the catch clause of process(): log, return null
catchProviderError == [threw |-> FALSE, response |-> AiNull]

\* AIProcessor.process awaited by one caller: the adapter afterwards, the
\* value returned, and whether an error reached the caller
process(adapter, outcome) ==
    LET a == [adapter EXCEPT !.requests = @ + 1]
        counted == [a EXCEPT !.dailyCallCount = incrementDailyCount(@)]
        ended == IF outcome.error THEN catchProviderError
                 ELSE [threw |-> FALSE, response |-> outcome.response]
    IN  IF ~mayCall(a)
        THEN [adapter |-> [a EXCEPT !.lastOp = "refused", !.last = AiNull],
              response |-> AiNull, threw |-> FALSE]
        ELSE IF a.provider \notin KnownProviders
        THEN [adapter |-> [counted EXCEPT !.lastOp = "returned", !.last = AiNull],
              response |-> AiNull, threw |-> FALSE]
        ELSE [adapter |-> [counted EXCEPT !.calls = @ + 1, !.lastOp = "returned",
                                          !.last = ended.response],
              response |-> ended.response, threw |-> ended.threw]

\* SalaryParser.parseWithAI: an object becomes a salary, anything else null
SalaryParseWithAI(p) ==
    IF ~p.threw /\ p.response.kind = "object"
    THEN SalaryValue("value", NullNum, NullNum, NullNum, VND, "unknown")
    ELSE SalaryNull

\* LocationNormalizer.normalizeWithAI
normalizeWithAI(locationText, p) ==
    IF ~p.threw /\ p.response.kind = "object"
    THEN LocationValue("value", locationText, <<"V", "N", "M">>, FALSE, FALSE)
    ELSE LocationNull

\* DateParser.parseWithAI: a YYYY-MM-DD string is returned as it is
DateParseWithAI(p) ==
    IF ~p.threw /\ p.response.kind = "string" /\ p.response.iso
    THEN DateValue("iso", 0, <<"a", "i">>)
    ELSE DateNull

\* await salaryParser.parseSalary(text, config)
ApplySalary ==
    /\ fIn.field = "salary" /\ ~fOut.done
    /\ LET sync == parseSalary(fIn.text, fIn.config)
           p == process(aiProcessor, fIn.outcome)
       IN  IF sync.kind = "promise"
           THEN /\ aiProcessor' = p.adapter
                /\ fOut' = [NoFieldResult EXCEPT !.done = TRUE, !.aiCalled = TRUE,
                               !.processThrew = p.threw, !.salary = SalaryParseWithAI(p)]
           ELSE /\ aiProcessor' = aiProcessor
                /\ fOut' = [NoFieldResult EXCEPT !.done = TRUE, !.salary = sync]
    /\ UNCHANGED <<priority, config, processed, company, jobPost, isProcessing, phase,
                   cyc, stats, summary, dropped, failures, cycles, resets, committed,
                   tIn, tOut, fIn, cr, app>>

\* await experienceMapper.mapExperience(text, config), then getExperienceLevelId
ApplyExperience ==
    /\ fIn.field = "experience" /\ ~fOut.done
    /\ LET p == process(aiProcessor, fIn.outcome)
           viaAI == mapExperienceCallsAI(fIn.text, fIn.config)
           level == mapExperience(fIn.text, fIn.config,
                                  IF viaAI /\ ~p.threw THEN p.response ELSE AiNull)
       IN  /\ aiProcessor' = IF viaAI THEN p.adapter ELSE aiProcessor
           /\ fOut' = [NoFieldResult EXCEPT !.done = TRUE, !.aiCalled = viaAI,
                          !.processThrew = viaAI /\ p.threw, !.level = level,
                          !.levelId = getExperienceLevelId(level)]
    /\ UNCHANGED <<priority, config, processed, company, jobPost, isProcessing, phase,
                   cyc, stats, summary, dropped, failures, cycles, resets, committed,
                   tIn, tOut, fIn, cr, app>>

\* await locationNormalizer.normalizeLocation(text, config)
ApplyLocation ==
    /\ fIn.field = "location" /\ ~fOut.done
    /\ LET sync == normalizeLocation(fIn.text, fIn.config)
           p == process(aiProcessor, fIn.outcome)
       IN  IF sync.kind = "promise"
           THEN /\ aiProcessor' = p.adapter
                /\ fOut' = [NoFieldResult EXCEPT !.done = TRUE, !.aiCalled = TRUE,
                               !.processThrew = p.threw,
                               !.location = normalizeWithAI(fIn.text, p)]
           ELSE /\ aiProcessor' = aiProcessor
                /\ fOut' = [NoFieldResult EXCEPT !.done = TRUE, !.location = sync]
    /\ UNCHANGED <<priority, config, processed, company, jobPost, isProcessing, phase,
                   cyc, stats, summary, dropped, failures, cycles, resets, committed,
                   tIn, tOut, fIn, cr, app>>

\* await dateParser.parseDate(text, config)
ApplyDate ==
    /\ fIn.field = "date" /\ ~fOut.done
    /\ LET sync == parseDate(fIn.text, fIn.config)
           p == process(aiProcessor, fIn.outcome)
       IN  IF sync.kind = "promise"
           THEN /\ aiProcessor' = p.adapter
                /\ fOut' = [NoFieldResult EXCEPT !.done = TRUE, !.aiCalled = TRUE,
                               !.processThrew = p.threw, !.date = DateParseWithAI(p)]
           ELSE /\ aiProcessor' = aiProcessor
                /\ fOut' = [NoFieldResult EXCEPT !.done = TRUE, !.date = sync]
    /\ UNCHANGED <<priority, config, processed, company, jobPost, isProcessing, phase,
                   cyc, stats, summary, dropped, failures, cycles, resets, committed,
                   tIn, tOut, fIn, cr, app>>

InitField ==
    /\ MainIdle
    /\ \E enabled \in BOOLEAN, keySet \in BOOLEAN, provider \in {"gemini", "mistral"},
          start \in {0, dailyLimit} :
         /\ start > 0 => enabled /\ getApiKey(provider, keySet)
         /\ aiProcessor = [AiAdapter(enabled, getApiKey(provider, keySet), provider)
                              EXCEPT !.dailyCallCount = start, !.calls = start]
    /\ \E field \in Fields :
         fIn \in {FieldInput(field, text, cfg, outcome) :
                    text \in FieldTexts(field), cfg \in FieldConfigs(field),
                    outcome \in ProviderOutcomes}
    /\ fOut = NoFieldResult
    /\ cr = NoCreate
    /\ app = AppOk

NextField == ApplySalary \/ ApplyExperience \/ ApplyLocation \/ ApplyDate

SpecField == InitField /\ [][NextField]_vars

(***************************************************************************)
(* Two concurrent create operations on one table of the normalized store.  *)
(* Every await of a query is a point where the other operation may run.    *)
(***************************************************************************)
Ops == {1, 2}

\* a call in flight: where it is, its argument, whether its duplicate checks
\* missed, the id it returned (0: none) and whether it threw
Op(pc, data) == [pc |-> pc, data |-> data, missed |-> FALSE, result |-> 0, threw |-> FALSE]

CompanyInputs ==
    {[name |-> n, location |-> <<"h">>, domain |-> d] :
        n \in {<<"A">>, <<"a", " ">>}, d \in {Null, <<"x", ".", "c">>}}

\* the candidates of raw rows 3 and 4, and the first under the URL of the second
JobInputs ==
    {transformJob(RawRows[i], GoodConfig, PlatformId("TopCV"), AiNull) : i \in {3, 4}}

FirstOf(S) == IF S = {} THEN 0 ELSE CHOOSE i \in S : \A j \in S : i <= j

\* SELECT Id FROM Company WHERE LOWER(Name) = LOWER($1)
\*   AND (LOWER(Domain) = LOWER($2) OR ($2 IS NULL AND Domain IS NULL)) LIMIT 1
findCompanyByNameAndDomain(table, name, domain) ==
    FirstOf({i \in 1..Len(table) :
               /\ Lower(table[i].name) = Lower(name)
               /\ \/ table[i].domain # Null /\ domain # Null
                        /\ Lower(table[i].domain) = Lower(domain)
                  \/ domain = Null /\ table[i].domain = Null})

\* SELECT Id FROM Company WHERE LOWER(TRIM(Name)) = LOWER(TRIM($1)) LIMIT 1
findCompanyByName(table, name) ==
    FirstOf({i \in 1..Len(table) : Lower(Trim(table[i].name)) = Lower(Trim(name))})

\* UNIQUE(Name, Domain): a NULL domain never conflicts
CompanyConflict(table, data) ==
    \E i \in 1..Len(table) :
        table[i].name = data.name /\ data.domain # Null /\ table[i].domain = data.domain

\* SELECT Id FROM JobPost WHERE PostUrl = $1 LIMIT 1
findJobByUrl(table, url) ==
    FirstOf({i \in 1..Len(table) : table[i].postUrl = url})

\* SELECT Id FROM JobPost WHERE CompanyId = $1
\*   AND LOWER(TRIM(Title)) = LOWER(TRIM($2)) AND PlatformId = $3 LIMIT 1
findJobByCompanyTitlePlatform(table, companyId, title, platformId) ==
    FirstOf({i \in 1..Len(table) :
               /\ table[i].companyId = companyId
               /\ Lower(Trim(table[i].title)) = Lower(Trim(title))
               /\ table[i].platformId = platformId})

\* the step of operation o: its new record, and the table
CreateStep(o, op, table) == cr' = [cr EXCEPT !.ops[o] = op, !.table = table]

Returned(op, id) == [op EXCEPT !.pc = "done", !.result = id]

CreateUnchanged ==
    UNCHANGED <<priority, config, processed, company, jobPost, isProcessing, phase,
                cyc, stats, summary, dropped, failures, cycles, resets, committed,
                tIn, tOut, aiProcessor, fIn, fOut, app>>

\* createCompany: await findCompanyByNameAndDomain(name, domain)
CreateCompanyFind(o) ==
    /\ cr.impl = "part_003" /\ cr.kind = "company" /\ cr.ops[o].pc = "find"
    /\ LET op == cr.ops[o]
           companyId == findCompanyByNameAndDomain(cr.table, op.data.name, op.data.domain)
       IN  CreateStep(o, IF companyId # 0 THEN Returned(op, companyId)
                         ELSE IF Falsy(op.data.domain) THEN [op EXCEPT !.pc = "findName"]
                         ELSE [op EXCEPT !.pc = "insert", !.missed = TRUE],
                      cr.table)
    /\ CreateUnchanged

\* createCompany: if (!domain) await findCompanyByName(name)
CreateCompanyFindName(o) ==
    /\ cr.impl = "part_003" /\ cr.kind = "company" /\ cr.ops[o].pc = "findName"
    /\ LET op == cr.ops[o]
           companyId == findCompanyByName(cr.table, op.data.name)
       IN  CreateStep(o, IF companyId # 0 THEN Returned(op, companyId)
                         ELSE [op EXCEPT !.pc = "insert", !.missed = TRUE],
                      cr.table)
    /\ CreateUnchanged

\* createCompany: INSERT INTO Company ... RETURNING Id; error 23505 goes to the catch
CreateCompanyInsert(o) ==
    /\ cr.impl = "part_003" /\ cr.kind = "company" /\ cr.ops[o].pc = "insert"
    /\ LET op == cr.ops[o]
       IN  IF CompanyConflict(cr.table, op.data)
           THEN CreateStep(o, [op EXCEPT !.pc = "refind"], cr.table)
           ELSE CreateStep(o, Returned(op, Len(cr.table) + 1),
                           Append(cr.table, [id |-> Len(cr.table) + 1,
                                             name |-> op.data.name,
                                             location |-> op.data.location,
                                             domain |-> op.data.domain]))
    /\ CreateUnchanged

\* createCompany, catch: look the company up again, else rethrow
CreateCompanyRefind(o) ==
    /\ cr.impl = "part_003" /\ cr.kind = "company" /\ cr.ops[o].pc = "refind"
    /\ LET op == cr.ops[o]
           existing == findCompanyByNameAndDomain(cr.table, op.data.name, op.data.domain)
       IN  CreateStep(o, IF existing # 0 THEN Returned(op, existing)
                         ELSE [op EXCEPT !.pc = "done", !.threw = TRUE],
                      cr.table)
    /\ CreateUnchanged

\* createJobPost: await findJobByUrl(jobData.post_url)
CreateJobFind(o) ==
    /\ cr.impl = "part_003" /\ cr.kind = "job" /\ cr.ops[o].pc = "find"
    /\ LET op == cr.ops[o]
           existingJobId == findJobByUrl(cr.table, op.data.postUrl)
       IN  CreateStep(o, IF existingJobId # 0 THEN Returned(op, existingJobId)
                         ELSE [op EXCEPT !.pc = "findTitle"],
                      cr.table)
    /\ CreateUnchanged

\* createJobPost: await findJobByCompanyTitlePlatform(...)
CreateJobFindTitle(o) ==
    /\ cr.impl = "part_003" /\ cr.kind = "job" /\ cr.ops[o].pc = "findTitle"
    /\ LET op == cr.ops[o]
           existingJobId == findJobByCompanyTitlePlatform(cr.table, 1, op.data.title,
                                                          op.data.platformId)
       IN  CreateStep(o, IF existingJobId # 0 THEN Returned(op, existingJobId)
                         ELSE [op EXCEPT !.pc = "insert", !.missed = TRUE],
                      cr.table)
    /\ CreateUnchanged

\* createJobPost: INSERT INTO JobPost ... RETURNING Id; error 23505 goes to the catch
CreateJobInsert(o) ==
    /\ cr.impl = "part_003" /\ cr.kind = "job" /\ cr.ops[o].pc = "insert"
    /\ LET op == cr.ops[o]
       IN  IF findJobByUrl(cr.table, op.data.postUrl) # 0
           THEN CreateStep(o, [op EXCEPT !.pc = "refind"], cr.table)
           ELSE CreateStep(o, Returned(op, Len(cr.table) + 1),
                           Append(cr.table, JobRow(Len(cr.table) + 1, 1, op.data)))
    /\ CreateUnchanged

\* createJobPost, catch: fetch the row by URL again, else rethrow
CreateJobRefind(o) ==
    /\ cr.impl = "part_003" /\ cr.kind = "job" /\ cr.ops[o].pc = "refind"
    /\ LET op == cr.ops[o]
           existing == findJobByUrl(cr.table, op.data.postUrl)
       IN  CreateStep(o, IF existing # 0 THEN Returned(op, existing)
                         ELSE [op EXCEPT !.pc = "done", !.threw = TRUE],
                      cr.table)
    /\ CreateUnchanged

\* DatabaseService: the call sends its one statement; the store runs it later
StoreCall(o) ==
    /\ cr.impl = "part_004" /\ cr.ops[o].pc = "call"
    /\ LET op == cr.ops[o]
           present == IF cr.kind = "company"
                      THEN findCompanyByNameAndDomain(cr.table, op.data.name, op.data.domain)
                      ELSE findJobByUrl(cr.table, op.data.postUrl)
       IN  CreateStep(o, [op EXCEPT !.pc = "statement", !.missed = (present = 0)], cr.table)
    /\ CreateUnchanged

\* DatabaseService.upsertCompany: the statement runs and the call returns
UpsertCompany(o) ==
    /\ cr.impl = "part_004" /\ cr.kind = "company" /\ cr.ops[o].pc = "statement"
    /\ LET op == cr.ops[o]
           r == upsertCompany(cr.table, op.data)
       IN  CreateStep(o, [op EXCEPT !.pc = "done", !.result = r.id, !.threw = r.throws],
                      r.table)
    /\ CreateUnchanged

\* DatabaseService.insertJobPost: the statement runs and the call returns
InsertJobPost(o) ==
    /\ cr.impl = "part_004" /\ cr.kind = "job" /\ cr.ops[o].pc = "statement"
    /\ LET op == cr.ops[o]
           r == insertJobPost(cr.table, 1, op.data)
       IN  CreateStep(o, [op EXCEPT !.pc = "done", !.result = r.id, !.threw = r.throws],
                      r.table)
    /\ CreateUnchanged

InitCreate ==
    /\ MainIdle
    /\ aiProcessor = AiOff /\ fIn = NoField /\ fOut = NoFieldResult
    /\ app = AppOk
    /\ \E impl \in {"part_003", "part_004"}, kind \in {"company", "job"} :
         \E d1, d2 \in (IF kind = "company" THEN CompanyInputs ELSE JobInputs) :
            LET pc == IF impl = "part_003" THEN "find" ELSE "call"
            IN  cr = [impl |-> impl, kind |-> kind, table |-> <<>>,
                      ops |-> [o \in Ops |-> Op(pc, IF o = 1 THEN d1 ELSE d2)]]

NextCreate ==
    \E o \in Ops :
        \/ CreateCompanyFind(o) \/ CreateCompanyFindName(o)
        \/ CreateCompanyInsert(o) \/ CreateCompanyRefind(o)
        \/ CreateJobFind(o) \/ CreateJobFindTitle(o)
        \/ CreateJobInsert(o) \/ CreateJobRefind(o)
        \/ StoreCall(o) \/ UpsertCompany(o) \/ InsertJobPost(o)

SpecCreate == InitCreate /\ [][NextCreate]_vars

(***************************************************************************)
(* Properties.                                                             *)
(***************************************************************************)
\* the step in which slot c commits one candidate
CommitStep(c) == cyc[c].pc = "commit" /\ cyc'[c] # cyc[c]

\* the candidate slot c is about to commit
CurrentJob(c) == cyc[c].jobs[cyc[c].jobIdx]

UrlStored(url) == \E i \in 1..Len(jobPost) : jobPost[i].postUrl = url

\* C1: at most one processing cycle runs at a time, and a cycle request that
\* arrives while a cycle is running is refused without touching the stores,
\* the running cycle, the counters or the flag.
C1_OneCycleAtATime ==
    [][/\ Cardinality({c \in Slots : cyc'[c].pc # "idle"}) <= 1
       /\ dropped' # dropped =>
            /\ isProcessing
            /\ UNCHANGED <<processed, company, jobPost, cyc, stats, isProcessing>>]_vars

\* a request was refused while a cycle is in the middle of a batch
C1_Witness == dropped > 0 /\ \E c \in Slots : cyc[c].pc = "commit"

\* C2: committing again a raw record whose commit has completed before adds
\* no Company row and no JobPost row.
C2_ReplayAddsNoRow ==
    [][\A c \in Slots :
         (CommitStep(c) /\ CurrentJob(c).rawJobId \in committed)
            => Len(company') = Len(company) /\ Len(jobPost') = Len(jobPost)]_vars

\* C3: when a cycle leaves a non-empty batch and no store operation has
\* failed, every raw record of that batch is marked processed.
C3_AttemptedAreMarked ==
    [][\A c \in Slots :
         (cyc[c].pc = "mark" /\ cyc'[c].pc # "mark" /\ failures' = 0)
            => \A i \in 1..Len(cyc[c].rawJobs) : processed'[cyc[c].rawJobs[i].job_id]]_vars

\* C4: the normalized store never holds two JobPost rows of the same company
\* and source whose titles are equal after trimming and case folding.
C4_OneRowPerRepost ==
    \A i, j \in 1..Len(jobPost) :
        (/\ jobPost[i].companyId = jobPost[j].companyId
         /\ jobPost[i].platformId = jobPost[j].platformId
         /\ Lower(Trim(jobPost[i].title)) = Lower(Trim(jobPost[j].title))) => i = j

\* C5: the normalized store never holds two Company rows without a domain
\* whose names are equal after trimming and case folding.
C5_OneRowPerCompany ==
    \A i, j \in 1..Len(company) :
        (/\ company[i].domain = Null
         /\ company[j].domain = Null
         /\ Lower(Trim(company[i].name)) = Lower(Trim(company[j].name))) => i = j

\* C6: an insert of a job post whose URL is already stored, made without a
\* store failure, leaves the JobPost table as it is and returns the id of the
\* stored row.
C6_DuplicateUrlReturnsId ==
    [][\A c \in Slots :
         (CommitStep(c) /\ UrlStored(CurrentJob(c).postUrl) /\ failures' = failures)
            => /\ jobPost' = jobPost
               /\ \E i \in 1..Len(jobPost) :
                    /\ jobPost[i].postUrl = CurrentJob(c).postUrl
                    /\ cyc'[c].jobId = jobPost[i].id]_vars

DeclarationIndex(key) == CHOOSE i \in 1..Len(PlatformKeys) : PlatformKeys[i] = key

\* C7: within a cycle the sources are fetched in ascending order of their
\* configured priority, equal priorities in declaration order.
C7_PriorityOrder ==
    \A c \in Slots : \A i, j \in 1..Len(cyc[c].visited) :
        i < j =>
            LET a == cyc[c].visited[i]
                b == cyc[c].visited[j]
            IN  \/ priority[a] < priority[b]
                \/ priority[a] = priority[b] /\ DeclarationIndex(a) < DeclarationIndex(b)

\* the candidates of slot c's batch that fail validateJob
InvalidInBatch(c) ==
    LET all == TransformAll(cyc[c].rawJobs,
                            PlatformId(PlatformName(cyc[c].order[cyc[c].platIdx])))
    IN  {i \in 1..Len(all) : ~all[i].throws /\ ~validateJob(all[i], loadConfig(config))}

\* C8: no JobPost row fails the source's validation, and processJobs counts
\* every candidate that fails validation as failed.
C8_InvalidNeverInserted ==
    [][/\ \A i \in 1..Len(jobPost') : validateJob(jobPost'[i], loadConfig(config))
       /\ \A c \in Slots :
            (cyc[c].pc = "transform" /\ cyc'[c].pc # "transform")
               => LET key == cyc[c].order[cyc[c].platIdx]
                  IN  stats'[key].failed - stats[key].failed
                         >= Cardinality(InvalidInBatch(c))]_vars

\* C9: transformJob returns a candidate record for every raw record and every
\* source configuration.
C9_TransformNeverAborts == tOut.done => ~tOut.job.throws

\* C10: a cycle that reaches its end has fetched every source, and has
\* attempted the commit of every candidate of every batch it transformed,
\* whatever store operation failed on the way.
C10_FailureDoesNotAbort ==
    \A c \in Slots :
        cyc[c].pc = "finish" =>
            /\ cyc[c].visited = cyc[c].order
            /\ cyc[c].transformed \subseteq cyc[c].attempted

\* a commit threw, a later record of the same batch was committed and the
\* cycle went on to its end
C10_Witness ==
    \E c \in Slots :
        /\ cyc[c].pc = "finish"
        /\ \E r \in cyc[c].failedCommit : \E q \in committed \cap cyc[c].attempted :
             q > r /\ RawRows[q].platform = RawRows[r].platform

\* C11: when a cycle ends, its aggregate failure count covers every record
\* whose commit failed with a store error, and its success count covers none
\* of them.
C11_FailedCommitCounted ==
    \A c \in Slots :
        cyc[c].pc = "finish" =>
            /\ cyc[c].totals.failed >= Cardinality(cyc[c].failedCommit)
            /\ cyc[c].totals.success
                  <= Cardinality(cyc[c].transformed \ cyc[c].failedCommit)

\* C12: between two resets the provider calls never exceed dailyLimit; the
\* counter changes only by one on a request that passed the check or to zero
\* on a reset, every request that passes the check counts, and a request
\* that finds the counter at the limit returns null, calls no provider and
\* leaves the counter as it is.
C12_DailyBudget ==
    [][LET a == aiProcessor
           b == aiProcessor'
           requested == b.requests # a.requests
       IN  /\ b.calls <= dailyLimit
           /\ b.dailyCallCount # a.dailyCallCount =>
                 \/ b.lastOp = "reset" /\ b.dailyCallCount = 0
                 \/ requested /\ a.dailyCallCount < dailyLimit
                      /\ b.dailyCallCount = a.dailyCallCount + 1
           /\ (requested /\ mayCall(a)) => b.dailyCallCount = a.dailyCallCount + 1
           /\ (requested /\ a.dailyCallCount >= dailyLimit) =>
                 /\ b.lastOp = "refused" /\ b.last = AiNull
                 /\ b.dailyCallCount = a.dailyCallCount
                 /\ b.calls = a.calls /\ b.waiting = a.waiting]_vars

\* a request was refused at the limit while another is with the provider
C12_Witness ==
    /\ aiProcessor.lastOp = "refused"
    /\ aiProcessor.dailyCallCount = dailyLimit
    /\ aiProcessor.calls = dailyLimit
    /\ aiProcessor.waiting # {}

\* the section of the source configuration that governs the field of a call
FieldSection(f) ==
    CASE f.field = "salary" -> f.config.salary
      [] f.field = "experience" -> f.config.experience_level
      [] f.field = "location" -> f.config.location
      [] OTHER -> f.config.date

\* the value an awaited field normalizer call resolved to is null / the default
FieldIsNullOrDefault ==
    CASE fIn.field = "salary" -> fOut.salary = SalaryNull
      [] fIn.field = "experience" -> fOut.level = DefaultLevel(fIn.config)
      [] fIn.field = "location" -> fOut.location = LocationNull
      [] OTHER -> fOut.date = DateNull

\* C13: AIProcessor.process never throws to the normalizer that called it;
\* when AI is disabled, the key is missing, the daily budget is exhausted, the
\* provider is unknown or the provider call fails it returns null, and the
\* normalizer then resolves the field to null (salary, location, date) or to
\* the default level (experience).
C13_ProcessNeverThrows ==
    (fOut.done /\ fOut.aiCalled) =>
        /\ ~fOut.processThrew
        /\ (\/ ~aiProcessor.enabled
            \/ ~aiProcessor.hasKey
            \/ aiProcessor.lastOp = "refused"
            \/ aiProcessor.provider \notin KnownProviders
            \/ fIn.outcome.error)
             => aiProcessor.last = AiNull /\ FieldIsNullOrDefault

\* a provider call that failed behind the experience mapper: the default level
C13_Witness ==
    /\ fOut.done /\ fOut.aiCalled
    /\ fIn.field = "experience" /\ fIn.outcome.error
    /\ aiProcessor.calls = 1 /\ aiProcessor.dailyCallCount = 1
    /\ fOut.level = "Lead"

\* the manual rules of the field ran and produced a result
ManualResolved(f) ==
    /\ ~Falsy(f.text)
    /\ Method(FieldSection(f)) \in {"manual", "ai"}
    /\ CASE f.field = "salary" -> SalaryParseManual(f.text, f.config.salary).kind # "null"
         [] f.field = "experience" -> mapManual(f.text, f.config.experience_level) # NoLevel
         [] f.field = "location" -> normalizeManual(f.text, f.config.location).kind = "value"
         [] OTHER -> DateParseManual(f.text, f.config.date).kind # "null"

RacedAndDone == \A o \in Ops : cr.ops[o].pc = "done" /\ cr.ops[o].missed

\* C15: two company creates for the same company (same name and same domain,
\* or same name and no domain on either) whose lookups both missed: neither
\* raises an error, both return the same company id, and exactly one Company
\* row of that company exists afterwards.
C15_RacingCompanyCreates ==
    (/\ cr.kind = "company" /\ RacedAndDone
     /\ cr.ops[1].data.name = cr.ops[2].data.name
     /\ cr.ops[1].data.domain = cr.ops[2].data.domain)
        => /\ \A o \in Ops : ~cr.ops[o].threw /\ cr.ops[o].result # 0
           /\ cr.ops[1].result = cr.ops[2].result
           /\ Cardinality({i \in 1..Len(cr.table) :
                             /\ cr.table[i].name = cr.ops[1].data.name
                             /\ cr.table[i].domain = cr.ops[1].data.domain}) = 1

\* C16: two job-post creates for the same URL whose duplicate checks both
\* missed: exactly one JobPost row is inserted, the loser raises no error, and
\* both return the id of that row.
C16_RacingJobCreates ==
    (/\ cr.kind = "job" /\ RacedAndDone
     /\ cr.ops[1].data.postUrl = cr.ops[2].data.postUrl)
        => /\ \A o \in Ops : ~cr.ops[o].threw
           /\ Len(cr.table) = 1
           /\ \A o \in Ops : cr.ops[o].result = cr.table[1].id

\* the positions of the salary patterns whose regex compiles and matches the text
MatchingPatterns(f) ==
    {i \in 1..Len(f.config.salary.patterns) :
        /\ f.config.salary.patterns[i].regex.valid
        /\ f.text \in f.config.salary.patterns[i].regex.matches}

\* C17: the salary parser's manual result is the one derived from the first
\* pattern, in configuration order, whose regex matches the text, whatever
\* later patterns would give; it is null when no pattern matches.
C17_FirstPatternWins ==
    (/\ fOut.done /\ fIn.field = "salary" /\ ~Falsy(fIn.text) /\ ~fOut.aiCalled
     /\ Method(fIn.config.salary) \in {"manual", "ai"})
        => fOut.salary =
              IF MatchingPatterns(fIn) = {} THEN SalaryNull
              ELSE extractSalaryFromMatch(fIn.text,
                       fIn.config.salary.patterns[FirstOf(MatchingPatterns(fIn))],
                       fIn.config.salary)

\* a text that a min pattern and then a range pattern match: the min result
C17_Witness ==
    /\ fOut.done /\ fIn.field = "salary" /\ fIn.text = SalRange
    /\ fIn.config.salary.patterns = <<MinPattern, RangePattern>>
    /\ fOut.salary.type = "min" /\ fOut.salary.currency = USD

\* C18: a matching range pattern gives min = first group x multiplier, max =
\* second group x multiplier, average = (min + max) / 2 and the matched
\* currency; for "15 Mil - 25 Mil VND" with multiplier 1,000,000 that is
\* 15,000,000 / 25,000,000 / 20,000,000 VND, and the candidate record's
\* monthly salary is the average.
C18_RangeArithmetic ==
    (tOut.done /\ tIn.rawJob.salary = SalRange /\ tIn.config \in {"good", "ai"})
        => LET salaryInfo == parseSalary(tIn.rawJob.salary, loadConfig(tIn.config))
           IN  /\ salaryInfo.type = "range"
               /\ salaryInfo.min = ParseNumber(Group(SalRange, 1)) * RangePattern.multiplier
               /\ salaryInfo.max = ParseNumber(Group(SalRange, 2)) * RangePattern.multiplier
               /\ salaryInfo.min = 15000000 /\ salaryInfo.max = 25000000
               /\ 2 * salaryInfo.average = salaryInfo.min + salaryInfo.max
               /\ salaryInfo.average = 20000000
               /\ salaryInfo.currency = VND
               /\ ~tOut.job.throws
               /\ tOut.job.salaryPerMonth = salaryInfo.average
               /\ tOut.job.currencyId = getCurrencyId(VND)

\* the candidate of a raw row whose salary text is the range
C18_Witness ==
    /\ tOut.done /\ tIn.rawJob.salary = SalRange /\ tIn.config = "good"
    /\ tOut.job.salaryPerMonth = 20000000

\* the capture groups a pattern of this type reads as numbers
NumericGroups(pattern) ==
    CASE pattern.type = "range" -> {pattern.min_group, pattern.max_group}
      [] pattern.type \in {"min", "max", "exact"} -> {pattern.value_group}
      [] OTHER -> {}

\* the pattern's regex matches the text but one of its numeric groups is
\* absent or is not a number
MatchesUnparsed(text, pattern) ==
    /\ pattern.regex.valid /\ text \in pattern.regex.matches
    /\ \E g \in NumericGroups(pattern) :
          \/ Falsy(Group(text, g))
          \/ ParseNumber(RemoveSeparators(Group(text, g))) = NaN

\* the salary section without the patterns that match with an unparsed group
ParsingPatterns(f) ==
    [f.config.salary EXCEPT
        !.patterns = SelectSeq(@, LAMBDA p : ~MatchesUnparsed(f.text, p))]

\* C26: a salary pattern whose regex matches but whose numeric group does not
\* parse is treated as a non-match: the manual result is the one the
\* remaining patterns give, and has no NaN bound.
C26_UnparsedGroupIsNoMatch ==
    (/\ fOut.done /\ fIn.field = "salary" /\ ~Falsy(fIn.text) /\ ~fOut.aiCalled
     /\ Method(fIn.config.salary) \in {"manual", "ai"})
        => /\ fOut.salary = SalaryParseManual(fIn.text, ParsingPatterns(fIn))
           /\ fOut.salary.min # NaN /\ fOut.salary.max # NaN

\* C19: a salary text that no manual pattern matches, under a configuration
\* with salary.ai_fallback enabled, is handed to the AI adapter, also when
\* salary.method is "manual"; when the adapter yields no object the salary
\* result is null.
C19_SalaryFallsBackToAI ==
    (/\ fOut.done /\ fIn.field = "salary" /\ ~Falsy(fIn.text)
     /\ MatchingPatterns(fIn) = {} /\ fIn.config.salary.ai_fallback)
        => /\ fOut.aiCalled
           /\ aiProcessor.last.kind # "object" => fOut.salary = SalaryNull

\* an awaited mapExperience call on a text that matches no mapping, neither
\* exactly nor by substring, under a configuration without AI fallback
UnmappedWithoutAI ==
    /\ fOut.done /\ fIn.field = "experience" /\ ~Falsy(fIn.text)
    /\ mapManual(fIn.text, fIn.config.experience_level) = NoLevel
    /\ ~fIn.config.experience_level.ai_fallback

ConfiguredDefault ==
    IF fIn.config.experience_level.default # NoLevel
    THEN fIn.config.experience_level.default ELSE "Entry"

\* C20 as stated: mapExperience never returns null; an unmapped text with AI
\* fallback disabled gives the configured default level, or "Entry" when none
\* is configured, and the experience-level id of the record is 2.
C20_AsStated ==
    /\ (fOut.done /\ fIn.field = "experience") => fOut.level # NoLevel
    /\ UnmappedWithoutAI => fOut.level = ConfiguredDefault /\ fOut.levelId = 2

\* C20, amended: mapExperience never returns null; an unmapped text with AI
\* fallback disabled gives the configured default level, or "Entry" when none
\* is configured, and the experience-level id of the record is the id of that
\* level: 2 only when the level is Entry or not one of the six canonical names.
C20_DefaultLevel ==
    /\ (fOut.done /\ fIn.field = "experience") => fOut.level # NoLevel
    /\ UnmappedWithoutAI =>
          /\ fOut.level = ConfiguredDefault
          /\ fOut.levelId = CASE fOut.level = "Internship" -> 1
                              [] fOut.level = "Mid" -> 3
                              [] fOut.level = "Senior" -> 4
                              [] fOut.level = "Lead" -> 5
                              [] fOut.level = "Executive" -> 6
                              [] OTHER -> 2

\* an unmapped text under a configuration whose default level is Mid: id 3
C20_Witness ==
    /\ UnmappedWithoutAI /\ fIn.text = ExpJunk
    /\ fOut.level = "Mid" /\ fOut.levelId = 3

\* the text of the call contains one of the keywords, whatever the case
HasKeyword(keywords) ==
    \E i \in 1..Len(keywords) : Includes(Lower(fIn.text), Lower(keywords[i]))

\* an awaited normalizeLocation call that the manual rules answered
ManualLocation ==
    /\ fOut.done /\ fIn.field = "location" /\ ~Falsy(fIn.text)
    /\ Method(fIn.config.location) \in {"manual", "ai"}
    /\ fOut.location.kind = "value"

\* C21: a location text that contains a configured remote keyword, in any
\* case, is normalized to isRemote = true and city "Remote" whatever city
\* mapping also matches; a hybrid keyword alone leaves the mapped city.
C21_RemoteWins ==
    ManualLocation =>
        /\ HasKeyword(fIn.config.location.remote_keywords)
              => fOut.location.isRemote
                    /\ fOut.location.city = <<"R", "e", "m", "o", "t", "e">>
        /\ (/\ HasKeyword(fIn.config.location.hybrid_keywords)
            /\ ~HasKeyword(fIn.config.location.remote_keywords))
              => /\ fOut.location.isHybrid /\ ~fOut.location.isRemote
                 /\ fOut.location.city =
                       mapCityFrom(fIn.text, fIn.config.location.city_mappings, 1)

\* a remote posting whose text also names a mapped city
C21_Witness ==
    /\ ManualLocation /\ fIn.text = LocRemoteHcm
    /\ Includes(fIn.text, fIn.config.location.city_mappings[1][1])
    /\ fOut.location.isRemote /\ fOut.location.city = <<"R", "e", "m", "o", "t", "e">>

\* the date text of the transformJob call is one that no relative pattern of
\* the configuration matches and that new Date() cannot parse
UnparseableDate ==
    LET dateConfig == loadConfig(tIn.config).date
    IN  /\ ~Falsy(tIn.rawJob.listed_time)
        /\ \A i \in 1..Len(dateConfig.relative) :
              ~(dateConfig.relative[i].regex.valid
                  /\ tIn.rawJob.listed_time \in dateConfig.relative[i].regex.matches)
        /\ tIn.rawJob.listed_time \notin ParseableDates

\* C22: for a date text that no relative pattern and no absolute format can
\* parse, with date AI fallback disabled, parseDate returns null and the
\* candidate record carries the current processing date as postedDate.
C22_UnparsedDateIsToday ==
    (/\ tOut.done /\ ~tOut.job.throws /\ UnparseableDate
     /\ ~loadConfig(tIn.config).date.ai_fallback)
        => /\ parseDate(tIn.rawJob.listed_time, loadConfig(tIn.config)).kind = "null"
           /\ tOut.job.postedDate = [kind |-> "iso", daysAgo |-> 0, abs |-> Null]

\* a candidate built from a junk date text under the complete configuration
C22_Witness ==
    /\ tOut.done /\ ~tOut.job.throws /\ tIn.rawJob.listed_time = DateJunk
    /\ tIn.config = "good" /\ tOut.job.postedDate.kind = "iso"
    /\ tOut.job.postedDate.daysAgo = 0

\* a document the process was started with does not load: config/global.yaml
\* is malformed or lacks its platforms or settings section, or a source's
\* document is malformed or lacks its rule sections
ConfigurationIncomplete ==
    app.global # "ok" \/ ~app.sourceParses \/ loadConfig(config) = BareConfig

\* C23: when the global configuration or an enabled source's configuration
\* cannot be loaded at startup (malformed document or missing required
\* section) the process refuses to start: no processing cycle ever begins.
C23_RefusesToStart ==
    ConfigurationIncomplete =>
        /\ ~isProcessing /\ cycles = 0
        /\ \A c \in Slots : cyc[c].pc = "idle"

\* the process runs: it was constructed and its cycles can read the batch size
ProcessRuns == app.state = "constructed" /\ ~BatchSizeThrows

\* the raw record is in the batch a cycle has fetched and is working on
InBatch(id) ==
    \E c \in Slots : \E i \in 1..Len(cyc[c].rawJobs) : cyc[c].rawJobs[i].job_id = id

\* C24: no starvation: while cycles keep running (the schedule is not cut
\* short by the table bound), every unprocessed raw record of an enabled
\* source is eventually in a fetched batch.
C24_NoStarvation ==
    \A id \in RawIds :
        (ProcessRuns /\ ~processed[id]) ~> (InBatch(id) \/ processed[id] \/ ScheduleCapped)

\* C25: every cycle that starts eventually finishes and releases the
\* re-entrancy guard, whatever failure occurs during it.
C25_CycleFinishes ==
    /\ isProcessing ~> ~isProcessing
    /\ \A c \in Slots : (cyc[c].pc # "idle") ~> (cyc[c].pc = "idle")

\* a Company row with this name and this domain (or, like it, without a domain)
CompanyStored(data) ==
    \E i \in 1..Len(company) :
        company[i].name = data.name /\ company[i].domain = data.domain

\* C27: resolving a company that is already stored creates no Company row and
\* leaves the id, the name and the domain of every stored row as they are.
C27_ExistingCompanyKept ==
    [][\A c \in Slots :
         (CommitStep(c) /\ CompanyStored(CurrentJob(c).company) /\ failures' = failures)
            => /\ Len(company') = Len(company)
               /\ \A i \in 1..Len(company) :
                    /\ company'[i].id = company[i].id
                    /\ company'[i].name = company[i].name
                    /\ company'[i].domain = company[i].domain]_vars

\* C28: for a date text that matches no manual rule, with date AI fallback
\* enabled, the candidate's postedDate is the AI response when it has the
\* YYYY-MM-DD shape and the processing date otherwise: always a date string.
C28_AiDateOrToday ==
    (/\ tOut.done /\ ~tOut.job.throws /\ UnparseableDate
     /\ loadConfig(tIn.config).date.ai_fallback)
        => /\ tOut.job.postedDate.kind = "iso"
           /\ tOut.job.postedDate =
                 IF tIn.ai.kind = "string" /\ tIn.ai.iso
                 THEN DateValue("iso", 0, <<"a", "i">>)
                 ELSE Today

\* C29: a raw record is marked processed only while the JobPost table holds a
\* row with that record's URL.
C29_MarkedOnlyIfStored ==
    [][\A id \in RawIds :
         (~processed[id] /\ processed'[id]) => UrlStored(RawRows[id].url)]_vars

\* a cycle has marked a batch of which one record's commit had failed: the
\* committed record is marked, the failed one is not
C29_Witness ==
    \E c \in Slots :
        /\ cyc[c].pc = "finish" /\ cyc[c].failedCommit # {}
        /\ \E id \in committed : processed[id] /\ UrlStored(RawRows[id].url)
        /\ \A id \in cyc[c].failedCommit : ~processed[id]

\* C30: a cycle's totals count only that cycle's records: a source's counters
\* are zero when its batch is about to be transformed, and what a batch adds
\* to the cycle's totals is its own size, split into succeeded and failed.
C30_TotalsOfThisCycle ==
    [][\A c \in Slots :
         /\ cyc'[c].pc = "transform" => stats'[cyc'[c].order[cyc'[c].platIdx]] = NoStats
         /\ (cyc[c].pc = "mark" /\ cyc'[c].totals # cyc[c].totals)
               => /\ cyc'[c].totals.processed - cyc[c].totals.processed
                        = Len(cyc[c].rawJobs)
                  /\ cyc'[c].totals.processed
                        = cyc'[c].totals.success + cyc'[c].totals.failed]_vars

====
